---- MODULE Spec2Model ----
(***************************************************************************)
(* Verification model of the DOM grounding resolver                        *)
(* (backend/app/automation/dom_resolver.py) and of the workflow runner     *)
(* with its run store and HTTP entry points                                *)
(* (backend/app/executor/selenium_runner.py, backend/app/core/storage.py,  *)
(* backend/app/api/routes_runs.py).                                        *)
(*                                                                         *)
(* SpecResolver explores DOMResolver.resolve over a small set of pages and *)
(* semantic targets.  Spec explores create_run / _run_workflow_task /      *)
(* WorkflowRunner.run / continue_run with the background tasks as threads. *)
(***************************************************************************)
EXTENDS Integers, Sequences, FiniteSets, TLC

VARIABLES
    \* ---- resolver side --------------------------------------------------
    page,        \* index into Pages: the DOM the driver currently shows
    cache,       \* DOMResolver.cache: cache key -> entry
    last,        \* observation record of the last resolve() call
    \* ---- runner side ----------------------------------------------------
    runs,        \* storage.runs: run id -> RunState
    run_params,  \* routes_runs.run_params: run id -> parameter map
    active_runners, \* routes_runs.active_runners: set of run ids with a runner
    runners,     \* the WorkflowRunner objects ever constructed, each with
                 \*   its driver, its _paused_for_auth flag and the address
                 \*   its page session shows
    tasks,       \* background tasks (thread-pool threads): frames of
                 \*   _run_workflow_task / WorkflowRunner.run
    artifacts,   \* the screenshot files on disk: run id -> file names
    hist,        \* history of the runner side (ghost, for the properties)
    \* ---- placeholder substitution on its own ----------------------------
    subst,       \* a parameter map and the last substitution made with it
    \* ---- step execution on its own --------------------------------------
    sess,        \* a page session: the form page it shows and the last
                 \*   _execute_step call made on it
    \* ---- the semantic workflow executor ---------------------------------
    replay,      \* WorkflowExecutor.execute: the workflow, the position of
                 \*   the loop and the results yielded so far
    \* ---- the continue entry point on its own ----------------------------
    http,        \* the last answer of POST /api/runs/{run_id}/continue
    \* ---- resolvers sharing a cache file ---------------------------------
    disk,         \* the cache file and the caches of the resolvers using it
    \* ---- the stored template and the steps made from it ---------------
    tmpl,        \* step objects, workflow.steps, and one run over them
    \* ---- CLICK steps on their own ---------------------------------------
    clk,          \* a page with choice inputs and the last CLICK call on it
    \* ---- TYPE steps on their own -------------------------------------------
    typ,          \* a text control and the last TYPE call made on it
    \* ---- the booking submission on its own ---------------------------------
    sbm,          \* a booking form and the last submit CLICK made on it
    \* ---- the life of one WorkflowExecutor ----------------------------------
    exe,          \* an executor, its resolver's cache and the cache file
    \* ---- run store ---------------------------------------------------------
    sto          \* storage.runs with the callers inside update_run / add_log

rvars == <<page, cache, last>>
wvars == <<runs, run_params, active_runners, runners, tasks, artifacts, hist>>
vars  == <<page, cache, last, runs, run_params, active_runners, runners, tasks,
          artifacts, hist, subst, sess, replay, http, disk, tmpl, clk, typ, sbm, exe, sto>>

(***************************************************************************)
(* Strings.  A string is a sequence of word tokens; "contains" is          *)
(* contiguous sub-sequence, lower() maps each token to its lower-case form *)
(***************************************************************************)
LowerTok(w) ==
    CASE w = "Submit" -> "submit"
      [] w = "Cancel" -> "cancel"
      [] w = "Full"   -> "full"
      [] w = "Name"   -> "name"
      [] w = "Your"   -> "your"
      [] w = "Hello"  -> "hello"
      [] w = "World"  -> "world"
      [] w = "Intro"  -> "intro"
      [] w = "Button" -> "button"
      [] w = "Select..." -> "select..."
      [] w = "Small"  -> "small"
      [] w = "Large"  -> "large"
      [] w = "Room"   -> "room"
      [] w = "Medium" -> "medium"
      [] w = "Choose" -> "choose"
      [] w = "Pick"   -> "pick"
      [] w = "Faculty" -> "faculty"
      [] w = "Staff"  -> "staff"
      [] w = "Press"  -> "press"
      [] w = "Continue" -> "continue"
      [] w = "My"     -> "my"
      [] w = "Booking" -> "booking"
      [] w = "Confirm" -> "confirm"
      [] w = "Confirmation" -> "confirmation"
      [] w = "Thank"  -> "thank"
      [] OTHER        -> w

Lower(s) == [i \in DOMAIN s |-> LowerTok(s[i])]

\* python `t in s` / XPath contains(s, t)
Contains(s, t) ==
    \E i \in 0..(Len(s) - Len(t)) : SubSeq(s, i + 1, i + Len(t)) = t

RECURSIVE SortedSeq(_)
\* the members of a finite set of integers in increasing (document) order
SortedSeq(S) ==
    IF S = {} THEN <<>>
    ELSE LET m == CHOOSE x \in S : \A y \in S : x <= y
         IN  <<m>> \o SortedSeq(S \ {m})

RECURSIVE Flat(_)
\* list.extend over a sequence of lists
Flat(ss) == IF ss = <<>> THEN <<>> ELSE Head(ss) \o Flat(Tail(ss))

(***************************************************************************)
(* Pages.  A page is the sequence of its elements in document order; the   *)
(* index of an element is its handle (WebElement._id).  Element 1 is       *)
(* <body>; parent 0 is the <html> root, which carries no attribute.        *)
(***************************************************************************)
El(tag, parent) ==
    [tag |-> tag, parent |-> parent, id |-> "", classes |-> {}, testid |-> "",
     datacy |-> "", text |-> <<>>, value |-> <<>>, aria |-> <<>>,
     placeholder |-> <<>>, for |-> "", type |-> "", role |-> ""]

\* a booking form directly under an attribute-less <body>
PageForm ==
    << El("body", 0),
       [El("label", 1) EXCEPT !.text = <<"Full", "Name">>, !.for = "name"],
       [El("input", 1) EXCEPT !.id = "name", !.type = "text",
                              !.placeholder = <<"Your", "Name">>],
       [El("button", 1) EXCEPT !.text = <<"Submit">>],
       [El("span", 1) EXCEPT !.text = <<"Hello">>] >>

\* the same form after a redesign: the input was renamed and got an
\* aria-label, the button got an id
PageFormV2 ==
    << El("body", 0),
       [El("label", 1) EXCEPT !.text = <<"Full", "Name">>, !.for = "fullname"],
       [El("input", 1) EXCEPT !.id = "fullname", !.type = "text",
                              !.placeholder = <<"Your", "Name">>,
                              !.aria = <<"Your", "Name">>],
       [El("button", 1) EXCEPT !.id = "go", !.text = <<"Submit">>] >>

\* a page with an identified container and class-styled buttons
PageMain ==
    << El("body", 0),
       [El("div", 1) EXCEPT !.id = "main"],
       [El("p", 2) EXCEPT !.text = <<"Intro">>],
       [El("span", 2) EXCEPT !.text = <<"Hello">>],
       [El("span", 2) EXCEPT !.text = <<"World">>],
       [El("button", 1) EXCEPT !.classes = {"btn", "primary"}, !.text = <<"Submit">>],
       [El("button", 1) EXCEPT !.classes = {"btn"}, !.text = <<"Cancel">>],
       [El("input", 1) EXCEPT !.testid = "email", !.type = "email",
                              !.aria = <<"Your", "Name">>] >>

\* a page with a paragraph of text and no control
PagePlain ==
    << El("body", 0),
       [El("p", 1) EXCEPT !.text = <<"Intro">>] >>

\* a toolbar of seven identified buttons
PageToolbar ==
    << El("body", 0),
       [El("button", 1) EXCEPT !.id = "b1", !.text = <<"One">>],
       [El("button", 1) EXCEPT !.id = "b2", !.text = <<"Two">>],
       [El("button", 1) EXCEPT !.id = "b3", !.text = <<"Three">>],
       [El("button", 1) EXCEPT !.id = "b4", !.text = <<"Four">>],
       [El("button", 1) EXCEPT !.id = "b5", !.text = <<"Five">>],
       [El("button", 1) EXCEPT !.id = "b6", !.text = <<"Six">>],
       [El("button", 1) EXCEPT !.id = "b7", !.text = <<"Seven">>] >>

Pages == <<PageForm, PageFormV2, PageMain, PagePlain, PageToolbar>>

PageIds == 1..Len(Pages)

Elems(d) == 1..Len(d)

RECURSIVE IsDesc(_, _, _)
\* j is a proper descendant of p (p = 0 is the <html> root)
IsDesc(d, j, p) ==
    \/ d[j].parent = p
    \/ d[j].parent > 0 /\ IsDesc(d, d[j].parent, p)

Children(d, p) == SortedSeq({j \in Elems(d) : d[j].parent = p})

IndexOf(seq, x) == CHOOSE i \in DOMAIN seq : seq[i] = x

\* position among the element children of the parent (CSS :nth-child);
\* <body> is the second child of <html>, after <head>
ChildIndex(d, j) ==
    IF d[j].parent = 0 THEN 2 ELSE IndexOf(Children(d, d[j].parent), j)

RECURSIVE TextContent(_, _)
RECURSIVE TextOfAll(_, _)
\* element.get_attribute("textContent"): own text, then the descendants'
TextContent(d, j) == d[j].text \o TextOfAll(d, Children(d, j))
TextOfAll(d, kids) ==
    IF kids = <<>> THEN <<>>
    ELSE TextContent(d, Head(kids)) \o TextOfAll(d, Tail(kids))

(***************************************************************************)
(* Selectors.  A selector is a sequence of simple selectors joined by the  *)
(* child combinator " > ".                                                 *)
(***************************************************************************)
Step(kind) == [kind |-> kind, name |-> "", classes |-> {}, text |-> <<>>, n |-> 0]
IdStep(id)          == [Step("id") EXCEPT !.name = id]            \* #id
ClassStep(cs)       == [Step("class") EXCEPT !.classes = cs]      \* .a.b
TestIdStep(v)       == [Step("testid") EXCEPT !.name = v]         \* [data-testid='v']
DataCyStep(v)       == [Step("datacy") EXCEPT !.name = v]         \* [data-cy='v']
ContainsStep(t, x)  == [Step("contains") EXCEPT !.name = t, !.text = x] \* t:contains('x')
TagStep(t)          == [Step("tag") EXCEPT !.name = t]            \* t
NthStep(t, i)       == [Step("nth") EXCEPT !.name = t, !.n = i]   \* t:nth-child(i)

NoSel == <<>>

\* what the browser's CSS engine does with one simple selector
MatchStep(d, j, st) ==
    CASE st.kind = "id"     -> d[j].id = st.name
      [] st.kind = "class"  -> st.classes \subseteq d[j].classes
      [] st.kind = "testid" -> d[j].testid = st.name
      [] st.kind = "datacy" -> d[j].datacy = st.name
      [] st.kind = "tag"    -> d[j].tag = st.name
      [] st.kind = "nth"    -> d[j].tag = st.name /\ ChildIndex(d, j) = st.n
      [] OTHER              -> FALSE

RECURSIVE Matches(_, _, _)
Matches(d, sel, j) ==
    /\ MatchStep(d, j, sel[Len(sel)])
    /\ \/ Len(sel) = 1
       \/ /\ d[j].parent > 0
          /\ Matches(d, SubSeq(sel, 1, Len(sel) - 1), d[j].parent)

\* :contains() is not CSS: the browser rejects the whole selector
ValidCss(sel) == \A i \in DOMAIN sel : sel[i].kind # "contains"

Invalid == -1
Missing == 0

\* driver.find_element(By.CSS_SELECTOR, sel): the first match in document
\* order, Missing for NoSuchElementException, Invalid for
\* InvalidSelectorException
FindElementCss(d, sel) ==
    IF ~ValidCss(sel) THEN Invalid
    ELSE LET hits == {j \in Elems(d) : Matches(d, sel, j)}
         IN  IF hits = {} THEN Missing
             ELSE CHOOSE j \in hits : \A k \in hits : j <= k

RECURSIVE GenerateSelector(_, _)
\* DOMResolver._generate_selector
GenerateSelector(d, e) ==
    LET el   == d[e]
        txt  == TextContent(d, e)
        same == {j \in Elems(d) : d[j].tag = el.tag /\ d[j].text = txt}
        p    == el.parent
        sibs == SortedSeq({j \in Elems(d) : d[j].tag = el.tag /\ IsDesc(d, j, p)})
        psel == IF p = 0 THEN <<TagStep("body")>> ELSE GenerateSelector(d, p)
    IN  IF el.id # "" THEN <<IdStep(el.id)>>
        ELSE IF /\ el.classes # {}
                /\ Cardinality({j \in Elems(d) : el.classes \subseteq d[j].classes}) = 1
             THEN <<ClassStep(el.classes)>>
        ELSE IF el.testid # "" THEN <<TestIdStep(el.testid)>>
        ELSE IF el.datacy # "" THEN <<DataCyStep(el.datacy)>>
        ELSE IF /\ el.tag \in {"button", "a"}
                /\ txt # <<>>
                /\ Cardinality(same) = 1
             THEN <<ContainsStep(el.tag, txt)>>
        ELSE psel \o <<NthStep(el.tag, IndexOf(sibs, e))>>

(***************************************************************************)
(* Semantic targets and the scoring strategies.  Scores are the WEIGHTS    *)
(* in thousandths.                                                         *)
(***************************************************************************)
Target(text, role, label, placeholder) ==
    [text_hint |-> text, role_hint |-> role, label_hint |-> label,
     placeholder_hint |-> placeholder, page_context |-> <<>>]

\* SemanticTarget() with no hint
NoTarget == Target(<<>>, <<>>, <<>>, <<>>)

Targets ==
    { Target(<<"Submit">>, <<"button">>, <<>>, <<>>),
      Target(<<>>, <<>>, <<"Full", "Name">>, <<>>),
      Target(<<>>, <<"textbox">>, <<"Name">>, <<"Your", "Name">>),
      Target(<<"Hello">>, <<>>, <<>>, <<>>),
      Target(<<"World">>, <<>>, <<>>, <<>>),
      Target(<<>>, <<"button">>, <<>>, <<>>) }

W_exact_text   == 1000
W_aria_label   == 950
W_label_for    == 900
W_placeholder  == 850
W_role_match   == 300
W_partial_text == 700

\* x * 0.8 and x * 0.9 on thousandths
Scale(w, tenths) == (w * tenths) \div 10

Cand(d, e, score) == [element |-> e, score |-> score, selector |-> GenerateSelector(d, e)]

\* one ScoredElement per element of a find_elements() result, in order
CandsOf(d, S, score) ==
    LET order == SortedSeq(S)
    IN  [i \in DOMAIN order |-> Cand(d, order[i], score)]

\* DOMResolver._find_by_text
FindByText(d, text, exact) ==
    IF exact
    THEN CandsOf(d, {j \in Elems(d) : d[j].text = text \/ d[j].value = text},
                 W_exact_text)
    ELSE CandsOf(d, {j \in Elems(d) : Contains(d[j].text, text) \/ Contains(d[j].value, text)},
                 W_partial_text)

\* DOMResolver._find_by_aria_label
FindByAriaLabel(d, label) ==
    CandsOf(d, {j \in Elems(d) : d[j].aria = label}, W_aria_label)
    \o CandsOf(d, {j \in Elems(d) : Contains(d[j].aria, label)}, Scale(W_aria_label, 8))

\* the candidates one matching <label> contributes
LabelCands(d, l) ==
    LET byId   == {j \in Elems(d) : d[j].id = d[l].for}
        target == CHOOSE j \in byId : \A k \in byId : j <= k
        inputs == {j \in Elems(d) : d[j].tag = "input" /\ IsDesc(d, j, l)}
        nested == CHOOSE j \in inputs : \A k \in inputs : j <= k
        viaFor == IF d[l].for # "" /\ byId # {}
                  THEN <<[element |-> target, score |-> W_label_for,
                          selector |-> <<IdStep(d[l].for)>>]>>
                  ELSE <<>>
        viaNest == IF inputs # {}
                   THEN <<Cand(d, nested, Scale(W_label_for, 9))>>
                   ELSE <<>>
    IN  IF d[l].for # "" /\ byId = {} THEN <<>>   \* `continue` on NoSuchElement
        ELSE viaFor \o viaNest

\* DOMResolver._find_by_label_for
FindByLabelFor(d, label_text) ==
    LET labels == SortedSeq({j \in Elems(d) :
                      /\ d[j].tag = "label"
                      /\ (d[j].text = label_text \/ Contains(d[j].text, label_text))})
    IN  Flat([i \in DOMAIN labels |-> LabelCands(d, labels[i])])

\* DOMResolver._find_by_placeholder
FindByPlaceholder(d, ph) ==
    CandsOf(d, {j \in Elems(d) : d[j].placeholder = ph}, W_placeholder)
    \o CandsOf(d, {j \in Elems(d) : Contains(d[j].placeholder, ph)}, Scale(W_placeholder, 8))

\* one CSS pattern of ROLE_SELECTORS: tag, type and role attribute to have
\* ("" for any) and the type values excluded by :not()
Pat(tag, type, role, nottypes) ==
    [tag |-> tag, type |-> type, role |-> role, nottypes |-> nottypes]

ROLE_SELECTORS(r) ==
    CASE r = <<"button">>   -> << Pat("button", "", "", {}), Pat("input", "button", "", {}),
                                  Pat("input", "submit", "", {}), Pat("", "", "button", {}) >>
      [] r = <<"link">>     -> << Pat("a", "", "", {}), Pat("", "", "link", {}) >>
      [] r = <<"input">>    -> << Pat("input", "", "", {"button", "submit"}),
                                  Pat("textarea", "", "", {}) >>
      [] r = <<"dropdown">> -> << Pat("select", "", "", {}), Pat("", "", "combobox", {}),
                                  Pat("", "", "listbox", {}) >>
      [] r = <<"checkbox">> -> << Pat("input", "checkbox", "", {}), Pat("", "", "checkbox", {}) >>
      [] r = <<"radio">>    -> << Pat("input", "radio", "", {}), Pat("", "", "radio", {}) >>
      [] r = <<"textbox">>  -> << Pat("input", "text", "", {}), Pat("input", "email", "", {}),
                                  Pat("input", "password", "", {}), Pat("textarea", "", "", {}) >>
      [] OTHER              -> <<>>

MatchPat(el, pt) ==
    /\ pt.tag = "" \/ el.tag = pt.tag
    /\ pt.type = "" \/ el.type = pt.type
    /\ pt.role = "" \/ el.role = pt.role
    /\ el.type \notin pt.nottypes

\* the score _find_by_role gives one element
RoleScore(d, j, text_hint) ==
    IF /\ text_hint # <<>>
       /\ \/ Contains(Lower(TextContent(d, j)), Lower(text_hint))
          \/ Contains(Lower(d[j].value), Lower(text_hint))
    THEN W_role_match + W_partial_text
    ELSE W_role_match

\* DOMResolver._find_by_role
FindByRole(d, role, text_hint) ==
    LET pats == ROLE_SELECTORS(Lower(role))
        per(pt) == LET order == SortedSeq({j \in Elems(d) : MatchPat(d[j], pt)})
                   IN  [i \in DOMAIN order |->
                          Cand(d, order[i], RoleScore(d, order[i], text_hint))]
    IN  Flat([k \in DOMAIN pats |-> per(pats[k])])

RECURSIVE Dedup(_, _)
\* the de-duplication loop of _find_candidates: the first candidate seen for
\* each element handle stays
Dedup(cs, seen) ==
    IF cs = <<>> THEN <<>>
    ELSE IF Head(cs).element \in seen THEN Dedup(Tail(cs), seen)
    ELSE <<Head(cs)>> \o Dedup(Tail(cs), seen \cup {Head(cs).element})

\* DOMResolver._find_candidates, lines 164-192: what the strategies append
\* to `candidates`, in strategy order
RawCandidates(d, t) ==
       (IF t.text_hint # <<>> THEN FindByText(d, t.text_hint, TRUE) ELSE <<>>)
    \o (IF t.label_hint # <<>> THEN FindByAriaLabel(d, t.label_hint) ELSE <<>>)
    \o (IF t.label_hint # <<>> THEN FindByLabelFor(d, t.label_hint) ELSE <<>>)
    \o (IF t.placeholder_hint # <<>> THEN FindByPlaceholder(d, t.placeholder_hint) ELSE <<>>)
    \o (IF t.role_hint # <<>> THEN FindByRole(d, t.role_hint, t.text_hint) ELSE <<>>)
    \o (IF t.text_hint # <<>> THEN FindByText(d, t.text_hint, FALSE) ELSE <<>>)

\* DOMResolver._find_candidates
FindCandidates(d, t) == Dedup(RawCandidates(d, t), {})

RECURSIVE SortByScore(_)
\* candidates.sort(key=score, reverse=True): stable, highest score first
SortByScore(cs) ==
    IF cs = <<>> THEN <<>>
    ELSE LET i == CHOOSE k \in DOMAIN cs :
                     /\ \A m \in DOMAIN cs : cs[m].score <= cs[k].score
                     /\ \A m \in 1..(k - 1) : cs[m].score < cs[k].score
         IN  <<cs[i]>> \o SortByScore(SubSeq(cs, 1, i - 1) \o SubSeq(cs, i + 1, Len(cs)))

\* DOMResolver._create_cache_key: the lower-cased hint fields, in order
CreateCacheKey(t) ==
    << Lower(t.text_hint), Lower(t.role_hint), Lower(t.label_hint),
       Lower(t.placeholder_hint), Lower(t.page_context) >>

\* candidates[1:6]
Alternatives(sorted) ==
    [i \in 1..(IF Len(sorted) - 1 < 5 THEN Len(sorted) - 1 ELSE 5) |-> sorted[i + 1].selector]

CacheWithout(c, key) == [k \in DOMAIN c \ {key} |-> c[k]]

\* a resolver that returns its result without writing it into the cache
CachePut_NoWrite(c, key, entry) == c

CachePut(c, key, entry) == [k \in DOMAIN c \cup {key} |-> IF k = key THEN entry ELSE c[k]]

\* candidates = self._find_candidates(target); candidates.sort(...): the
\* ranked candidates of every target on every page
RankedCandidates ==
    [d \in {Pages[p] : p \in PageIds}, t \in Targets |-> SortByScore(FindCandidates(d, t))]

\* the part of resolve() after the strategy search (lines 125-158), on
\* cache c; `sorted` is the ranked candidate list
ResolveRanked(c, t, wait, evicted, sorted, clickable) ==
    LET key    == CreateCacheKey(t)
        best   == sorted[1]
        entry  == [selector |-> best.selector, type |-> "css",
                   confidence |-> best.score, alternatives |-> Alternatives(sorted)]
        base   == [path |-> "miss", strategies |-> TRUE, evicted |-> evicted]
    IN  IF sorted = <<>>
        THEN \* NoSuchElementException(f"No elements found matching target: {target}")
             base @@ [outcome |-> "ElementNotFound", element |-> Missing, selector |-> NoSel,
                      confidence |-> 0, type |-> "", alternatives |-> <<>>, about |-> t,
                      cache |-> c]
        ELSE IF wait /\ clickable = Invalid
        THEN \* element_to_be_clickable raises out of WebDriverWait.until
             base @@ [outcome |-> "InvalidSelector", element |-> Missing, selector |-> NoSel,
                      confidence |-> 0, type |-> "", alternatives |-> <<>>, about |-> NoTarget,
                      cache |-> CachePut(c, key, entry)]
        ELSE base @@ [outcome |-> "ok", element |-> best.element, selector |-> best.selector,
                      confidence |-> best.score, type |-> "css",
                      alternatives |-> Alternatives(sorted), about |-> NoTarget,
                      cache |-> CachePut(c, key, entry)]

\* the part of resolve() after the cache check (lines 123-158), on cache c
ResolveMiss(d, c, t, wait, evicted) ==
    ResolveRanked(c, t, wait, evicted, RankedCandidates[d, t],
                  IF RankedCandidates[d, t] = <<>> THEN Missing
                  ELSE FindElementCss(d, RankedCandidates[d, t][1].selector))

\* the cache check with the NoSuchElementException of the cached lookup
\* escaping: a stale entry makes the call fail and stays in the cache
ResolveCached_StaleRaises(d, c, t, wait, hit) ==
    IF hit = Invalid
    THEN [path |-> "hit", strategies |-> FALSE, evicted |-> FALSE,
          outcome |-> "InvalidSelector", element |-> Missing, selector |-> NoSel,
          confidence |-> 0, type |-> "", alternatives |-> <<>>, about |-> NoTarget,
          cache |-> c]
    ELSE IF hit = Missing
    THEN [path |-> "hit", strategies |-> FALSE, evicted |-> FALSE,
          outcome |-> "ElementNotFound", element |-> Missing, selector |-> NoSel,
          confidence |-> 0, type |-> "", alternatives |-> <<>>, about |-> NoTarget,
          cache |-> c]
    ELSE [path |-> "hit", strategies |-> FALSE, evicted |-> FALSE,
          outcome |-> "ok", element |-> hit, selector |-> c[CreateCacheKey(t)].selector,
          confidence |-> c[CreateCacheKey(t)].confidence,
          type |-> c[CreateCacheKey(t)].type,
          alternatives |-> c[CreateCacheKey(t)].alternatives, about |-> NoTarget,
          cache |-> c]

\* the cache check of resolve() (lines 106-121) when the cache holds an entry
\* for the target; `hit` is what find_element gave for the cached selector
ResolveCached(d, c, t, wait, hit) ==
    IF hit = Invalid
    THEN [path |-> "hit", strategies |-> FALSE, evicted |-> FALSE,
          outcome |-> "InvalidSelector", element |-> Missing, selector |-> NoSel,
          confidence |-> 0, type |-> "", alternatives |-> <<>>, about |-> NoTarget,
          cache |-> c]
    ELSE IF hit = Missing
    THEN ResolveMiss(d, CacheWithout(c, CreateCacheKey(t)), t, wait, TRUE)
    ELSE [path |-> "hit", strategies |-> FALSE, evicted |-> FALSE,
          outcome |-> "ok", element |-> hit, selector |-> c[CreateCacheKey(t)].selector,
          confidence |-> c[CreateCacheKey(t)].confidence,
          type |-> c[CreateCacheKey(t)].type,
          alternatives |-> c[CreateCacheKey(t)].alternatives, about |-> NoTarget,
          cache |-> c]

\* DOMResolver.resolve: the outcome of one call and the cache it leaves
ResolveCall(d, c, t, wait) ==
    IF CreateCacheKey(t) \notin DOMAIN c
    THEN ResolveMiss(d, c, t, wait, FALSE)
    ELSE ResolveCached(d, c, t, wait, FindElementCss(d, c[CreateCacheKey(t)].selector))

(***************************************************************************)
(* The resolver as a state machine: one DOMResolver on one driver.         *)
(***************************************************************************)
EmptyCache == [k \in {} |-> 0]

\* `last` describes the last resolve() call on the page as it is now (NoCall
\* once the page changed).  `prior`, `priorEl`: the selector and the element
\* the preceding call returned if that was a successful resolve of the same
\* target on the same, unchanged page; `about`: the target the raised
\* NoSuchElementException names; `cached`: the selector the cache held for the
\* target when the call began; `cacheKept`: the call left the cache as it
\* was; `othersKept`: it left every other key's entry as it was
NoCall ==
    [called |-> FALSE, target |-> NoTarget,
     prior |-> NoSel, priorEl |-> Missing, cached |-> NoSel, cacheKept |-> TRUE,
     othersKept |-> TRUE,
     path |-> "none", strategies |-> FALSE, evicted |-> FALSE, outcome |-> "none",
     element |-> Missing, selector |-> NoSel, confidence |-> 0, type |-> "",
     alternatives |-> <<>>, about |-> NoTarget]

ResolverInit ==
    /\ page \in PageIds
    /\ cache = EmptyCache
    /\ last = NoCall

\* one call resolver.resolve(t, wait) on the current page
Resolve(t, wait) ==
    \E r \in {ResolveCall(Pages[page], cache, t, wait)}, key \in {CreateCacheKey(t)} :
        /\ cache' = r.cache
        /\ last' = [called |-> TRUE, target |-> t,
                    prior |-> IF last.target = t /\ last.outcome = "ok"
                              THEN last.selector ELSE NoSel,
                    priorEl |-> IF last.target = t /\ last.outcome = "ok"
                                THEN last.element ELSE Missing,
                    cached |-> IF key \in DOMAIN cache THEN cache[key].selector ELSE NoSel,
                    cacheKept |-> r.cache = cache,
                    othersKept |-> CacheWithout(r.cache, key) = CacheWithout(cache, key),
                    path |-> r.path, strategies |-> r.strategies, evicted |-> r.evicted,
                    outcome |-> r.outcome, element |-> r.element,
                    selector |-> r.selector, confidence |-> r.confidence,
                    type |-> r.type, alternatives |-> r.alternatives,
                    about |-> r.about]
        /\ UNCHANGED page

\* the driver shows another document (navigation, redesign, DOM rewrite)
PageChange(p) ==
    /\ p # page
    /\ page' = p
    /\ last' = NoCall
    /\ UNCHANGED cache

(***************************************************************************)
(* Cache persistence: several DOMResolver objects on one cache file.       *)
(***************************************************************************)
MaxDiskResolves == 2

MaxDiskSaves == 2

ResolverIds == {"A", "B", "C"}

\* json.dump(self.cache, f): the members of the JSON object written
JsonDump(c) == {[name |-> k, value |-> c[k]] : k \in DOMAIN c}

\* json.load(f): the dict of the members of a JSON object
JsonLoad(text) ==
    [k \in {m.name : m \in text} |-> (CHOOSE m \in text : m.name = k).value]

\* disk.saves lists the save_cache calls (who saved, and the cache it held);
\* disk.built describes the last construction on the file (who, the cache
\* it started with, and the cache of the last saver at that moment)
NoDisk ==
    [file |-> [exists |-> FALSE, text |-> {}],
     cache |-> [x \in ResolverIds |-> EmptyCache],
     resolves |-> 0, saves |-> <<>>,
     built |-> [by |-> "", cache |-> EmptyCache, expected |-> EmptyCache]]

\* resolver x resolves target t on the page its driver shows
DiskResolve(x, d, t, wait) ==
    /\ disk.resolves < MaxDiskResolves
    /\ \E r \in {ResolveCall(d, disk.cache[x], t, wait)} :
           disk' = [disk EXCEPT !.cache[x] = r.cache, !.resolves = @ + 1]

\* a save that merges the cache into the members the file already holds
DiskSave_Merge(x) ==
    /\ Len(disk.saves) < MaxDiskSaves
    /\ disk' = [disk EXCEPT
                   !.file = [exists |-> TRUE,
                             text |-> JsonDump(disk.cache[x]) \cup
                                      {m \in disk.file.text :
                                          m.name \notin DOMAIN disk.cache[x]}],
                   !.saves = Append(@, [by |-> x, cache |-> disk.cache[x]])]

\* resolver x: save_cache(cache_file)
DiskSave(x) ==
    /\ Len(disk.saves) < MaxDiskSaves
    /\ disk' = [disk EXCEPT
                   !.file = [exists |-> TRUE, text |-> JsonDump(disk.cache[x])],
                   !.saves = Append(@, [by |-> x, cache |-> disk.cache[x]])]

\* resolver x is constructed on the file: DOMResolver(driver, cache_file)
DiskConstruct(x) ==
    \E c \in {IF disk.file.exists THEN JsonLoad(disk.file.text) ELSE EmptyCache} :
        disk' = [disk EXCEPT
                    !.cache[x] = c,
                    !.built = [by |-> x, cache |-> c,
                               expected |-> IF disk.saves = <<>> THEN EmptyCache
                                            ELSE disk.saves[Len(disk.saves)].cache]]

(***************************************************************************)
(* Placeholder substitution (WorkflowRunner._substitute_step_placeholders). *)
(* A string field of a step is a sequence of parts: literal text or a      *)
(* placeholder {{key}}.  A parameter map is a function from the keys it    *)
(* holds to their values (token sequences; " " is a run of white space).   *)
(***************************************************************************)
Lit(x) == [kind |-> "lit", key |-> "", text |-> x]

\* a match of _PLACEHOLDER_PATTERN
Ph(k) == [kind |-> "ph", key |-> k, text |-> <<>>]

EmptyParams == [k \in {} |-> <<>>]

\* params[key] = value
PutParam(p, key, value) == [k \in DOMAIN p \cup {key} |-> IF k = key THEN value ELSE p[k]]

\* str(value).strip().split(): the words of a value
Words(v) == SelectSeq(v, LAMBDA w : w # " ")

RECURSIVE JoinWords(_)
\* " ".join(words)
JoinWords(ws) ==
    IF Len(ws) <= 1 THEN ws ELSE <<Head(ws), " ">> \o JoinWords(Tail(ws))

\* the value _discover_room_page_url returns when it finds no link
NoUrl == <<>>

\* re.search(r"\b(\d{3,5})\b", keyword)
IsRoomNumber(w) == w \in {"1234"}

\* re.sub(r"[^A-Za-z0-9_-]", "", keyword): the words run together
Squash(ws) ==
    CASE ws = <<"Study", "Room">> -> <<"StudyRoom">>
      [] Len(ws) <= 1             -> ws

\* the room_id _inject_derived_params derives from room_keyword
RoomIdOf(keyword) ==
    IF \E i \in DOMAIN keyword : IsRoomNumber(keyword[i])
    THEN <<keyword[CHOOSE i \in DOMAIN keyword :
                      /\ IsRoomNumber(keyword[i])
                      /\ \A j \in 1..(i - 1) : ~IsRoomNumber(keyword[j])]>>
    ELSE Squash(Words(keyword))

\* _inject_derived_params, lines 1350-1356; `disc` is what
\* _discover_room_page_url finds on the page the driver shows
InjectRoomPageUrl(p, disc) ==
    IF /\ "room_page_url" \notin DOMAIN p
       /\ "room_keyword" \in DOMAIN p
       /\ Words(p["room_keyword"]) # <<>>
       /\ disc # NoUrl
    THEN PutParam(p, "room_page_url", disc)
    ELSE p

\* _inject_derived_params, lines 1366-1369
InjectGateway(p) ==
    IF "room_page_url" \notin DOMAIN p /\ "room_id" \in DOMAIN p
    THEN PutParam(p, "room_page_url", <<"https://spaces.lib.uci.edu/booking/Gateway/">> \o p["room_id"])
    ELSE p

\* _inject_derived_params, lines 1358-1369
InjectRoomId(p) ==
    IF "room_id" \notin DOMAIN p /\ "room_keyword" \in DOMAIN p
    THEN InjectGateway(IF Words(p["room_keyword"]) # <<>>
                       THEN PutParam(p, "room_id", RoomIdOf(p["room_keyword"]))
                       ELSE p)
    ELSE p

\* _inject_derived_params, lines 1371-1376
InjectFullName(p) ==
    IF /\ "full_name" \in DOMAIN p
       /\ Words(p["full_name"]) # <<>>
       /\ ("full_name_first" \notin DOMAIN p \/ "full_name_last" \notin DOMAIN p)
    THEN PutParam(PutParam(p, "full_name_first", <<Head(Words(p["full_name"]))>>),
                  "full_name_last",
                  IF Len(Words(p["full_name"])) > 1
                  THEN JoinWords(Tail(Words(p["full_name"]))) ELSE <<".">>)
    ELSE p

\* WorkflowRunner._inject_derived_params: the map it leaves
InjectDerivedParams(p, disc) == InjectFullName(InjectRoomId(InjectRoomPageUrl(p, disc)))

\* _resolve_param, lines 1343-1344: the map after the look-up of `key`
ResolveParam(key, p, disc) ==
    IF key \in DOMAIN p THEN p ELSE InjectDerivedParams(p, disc)

\* outcomes of a substitution: the text produced and the map left behind, or
\* KeyError("Missing required workflow parameter: <missing>")
SubstOk(out, p) == [ok |-> TRUE, out |-> out, missing |-> "", params |-> p]

KeyError(key, p) == [ok |-> FALSE, out |-> <<>>, missing |-> key, params |-> p]

Prepend(x, r) == IF r.ok THEN [r EXCEPT !.out = x \o @] ELSE r

RECURSIVE SubstParts(_, _, _)
RECURSIVE SubstPlaceholder(_, _, _, _)
\* _PLACEHOLDER_PATTERN.sub(lambda match: self._resolve_param(...), value):
\* the matches are resolved from left to right on the one map
SubstParts(parts, p, disc) ==
    IF parts = <<>> THEN SubstOk(<<>>, p)
    ELSE IF Head(parts).kind = "lit"
    THEN Prepend(Head(parts).text, SubstParts(Tail(parts), p, disc))
    ELSE SubstPlaceholder(Head(parts).key, Tail(parts),
                          ResolveParam(Head(parts).key, p, disc), disc)

\* _resolve_param, lines 1345-1347, on the map p1 left by the look-up
SubstPlaceholder(key, rest, p1, disc) ==
    IF key \notin DOMAIN p1 THEN KeyError(key, p1)
    ELSE Prepend(p1[key], SubstParts(rest, p1, disc))

\* a step as model_dump() lists it: type, description, then the value
WfStep(type, description, value) ==
    [type |-> type, description |-> description, value |-> value]

\* the substituted step, once the description (r1) and the value (r2) are done
SubstStepValue(step, r1, r2) ==
    IF ~r2.ok THEN [ok |-> FALSE, step |-> WfStep(step.type, <<>>, <<>>),
                    missing |-> r2.missing, params |-> r2.params]
    ELSE [ok |-> TRUE, step |-> WfStep(step.type, r1.out, r2.out),
          missing |-> "", params |-> r2.params]

SubstStepFrom(step, r1, disc) ==
    IF ~r1.ok THEN [ok |-> FALSE, step |-> WfStep(step.type, <<>>, <<>>),
                    missing |-> r1.missing, params |-> r1.params]
    ELSE SubstStepValue(step, r1, SubstParts(step.value, r1.params, disc))

\* WorkflowRunner._substitute_step_placeholders(step, params)
SubstituteStepPlaceholders(step, p, disc) ==
    SubstStepFrom(step, SubstParts(step.description, p, disc), disc)

(***************************************************************************)
(* Substitution as a state machine: one parameter map (a dict, changed in  *)
(* place by _inject_derived_params) and calls of                           *)
(* _substitute_step_placeholders on it.                                    *)
(***************************************************************************)
\* the values a client may give each parameter
ParamValues(k) ==
    CASE k = "full_name"       -> {<<"Ada", " ", "Lovelace">>, <<" ">>}
      [] k = "full_name_first" -> {<<"Countess">>}
      [] k = "full_name_last"  -> {<<"King">>}
      [] k = "room_keyword"    -> {<<"Room", " ", "1234">>, <<"Study", " ", "Room">>}
      [] k = "room_id"         -> {<<"42">>}
      [] k = "room_page_url"   -> {<<"https://spaces.lib.uci.edu/space/", "42">>}

ParamKeys ==
    {"full_name", "full_name_first", "full_name_last", "room_keyword", "room_id",
     "room_page_url"}

\* every parameter map a client may send over ParamKeys
ParamMaps ==
    {p \in UNION {[K -> UNION {ParamValues(k) : k \in K}] : K \in SUBSET ParamKeys} :
        \A k \in DOMAIN p : p[k] \in ParamValues(k)}

\* the steps substituted
SubstSteps ==
    {WfStep("GOTO", <<Lit(<<"Open", " ", "room">>)>>, <<Ph("room_page_url")>>),
     WfStep("TYPE", <<Lit(<<"Enter", " ", "name">>)>>, <<Ph("full_name")>>),
     WfStep("TYPE", <<Lit(<<"Name", " ", "parts">>)>>,
            <<Ph("full_name_first"), Lit(<<" ">>), Ph("full_name_last")>>),
     WfStep("TYPE", <<Lit(<<"Room", " ">>), Ph("room_id")>>, <<Ph("room_keyword")>>)}

\* what a call gave: the substituted step, or the missing parameter
SubstOutcome(r) == [ok |-> r.ok, step |-> r.step, missing |-> r.missing]

NoOutcome == [ok |-> FALSE, step |-> WfStep("", <<>>, <<>>), missing |-> ""]

\* `prev`: what the preceding call gave, if it was made for the same step
\* with the same page in the driver
NoSubst ==
    [params |-> EmptyParams, called |-> FALSE, step |-> WfStep("", <<>>, <<>>),
     disc |-> NoUrl, given |-> EmptyParams, out |-> NoOutcome, prev |-> NoOutcome]

\* no template loaded, no run over it
NoTmpl ==
    [heap |-> <<>>, steps |-> <<>>, original |-> <<>>, params |-> EmptyParams,
     idx |-> 0, status |-> "", resolved |-> 0]

SubstInit == subst \in {[NoSubst EXCEPT !.params = p] : p \in ParamMaps}

\* one call _substitute_step_placeholders(step, params) on the map
Substitute(step, disc) ==
    \E r \in {SubstituteStepPlaceholders(step, subst.params, disc)} :
        subst' = [params |-> r.params, called |-> TRUE, step |-> step, disc |-> disc,
                  given |-> subst.params, out |-> SubstOutcome(r),
                  prev |-> IF subst.called /\ subst.step = step /\ subst.disc = disc
                           THEN subst.out ELSE NoOutcome]

(***************************************************************************)
(* Step execution (WorkflowRunner._execute_step) against a form page.      *)
(* A form page is the sequence of its controls in document order, all      *)
(* displayed; a CSS selector here is an id ("d1" stands for "#d1").        *)
(***************************************************************************)
\* an <option>: its visible text and its value attribute
Opt(text, value) == [text |-> text, value |-> value]

\* a control: `selected` is the index of the option chosen by a step (0:
\* none), `typed` the values sent to it with send_keys
Ctl(tag, id, options) ==
    [tag |-> tag, id |-> id, aria |-> <<>>, options |-> options, selected |-> 0,
     typed |-> <<>>]

MaxSends == 1

SizeOptions ==
    <<Opt(<<"Select...">>, <<>>), Opt(<<"Small">>, <<"s">>),
      Opt(<<"Large", " ", "Room">>, <<"l">>)>>

TimeOptions == <<Opt(<<"1:00pm">>, <<"13">>), Opt(<<"2:00pm">>, <<"14">>)>>

PlaceholderOptions == <<Opt(<<"Select...">>, <<>>)>>

\* the controls a page may show under one id
Controls(id) ==
    {Ctl("select", id, SizeOptions), Ctl("select", id, TimeOptions),
     Ctl("select", id, PlaceholderOptions), Ctl("select", id, <<>>),
     Ctl("input", id, <<>>)}

FormPages == {<<a, b>> : a \in Controls("d1"), b \in Controls("d2")}

\* a step of the template, with the fields _execute_step reads
FormStep(type, description, resolved_css_selector, css_selector_hint, value) ==
    [type |-> type, description |-> description,
     resolved_css_selector |-> resolved_css_selector,
     css_selector_hint |-> css_selector_hint, target_text_hint |-> <<>>,
     target_semantic |-> <<>>, value |-> value]

RECURSIVE Strip(_)
\* str.strip()
Strip(s) ==
    IF s = <<>> THEN s
    ELSE IF Head(s) = " " THEN Strip(Tail(s))
    ELSE IF s[Len(s)] = " " THEN Strip(SubSeq(s, 1, Len(s) - 1))
    ELSE s

\* re.sub(r"\s+", " ", value).strip().lower()
NormalizeText(value) == Lower(JoinWords(Words(value)))

\* the index of the first item of a list that satisfies M, 0 when none does
FirstIdx(seq, M(_)) ==
    IF \E i \in DOMAIN seq : M(seq[i])
    THEN CHOOSE i \in DOMAIN seq : M(seq[i]) /\ \A j \in 1..(i - 1) : ~M(seq[j])
    ELSE 0

\* the first displayed element a CSS selector matches (TimeoutException: 0)
FirstVisibleCssElement(d, css) == FirstIdx(d, LAMBDA c : c.id = css)

\* _find_element: the learned selector, then the selector hint, then the
\* aria-label of the semantic hint; 0 stands for NoSuchElementException
FindElement(d, step) ==
    LET css_candidates ==
            SelectSeq(<<step.resolved_css_selector, step.css_selector_hint>>,
                      LAMBDA c : c # "")
        found == SelectSeq([k \in DOMAIN css_candidates |->
                               FirstVisibleCssElement(d, css_candidates[k])],
                           LAMBDA e : e # 0)
    IN  IF found # <<>> THEN Head(found)
        ELSE IF step.target_semantic = <<>> THEN 0
        ELSE IF \E i \in DOMAIN d : d[i].aria = step.target_semantic
        THEN FirstIdx(d, LAMBDA c : c.aria = step.target_semantic)
        ELSE FirstIdx(d, LAMBDA c : Contains(c.aria, step.target_semantic))

\* Select.select_by_visible_text: option[normalize-space(.) = text]
ByVisibleText(options, text) ==
    FirstIdx(options, LAMBDA o : JoinWords(Words(o.text)) = text)

\* Select.select_by_value: option[value = "..."]
ByValue(options, value) == FirstIdx(options, LAMBDA o : o.value = value)

\* _select_option_fuzzy
SelectOptionFuzzy(options, target_value) ==
    FirstIdx(options,
             LAMBDA o : \/ Contains(NormalizeText(o.text), NormalizeText(target_value))
                        \/ Contains(NormalizeText(o.value), NormalizeText(target_value)))

\* the option a SELECT step picks: by text, else by value, else fuzzily
SelectIndex(options, value) ==
    IF ByVisibleText(options, value) # 0 THEN ByVisibleText(options, value)
    ELSE IF ByValue(options, value) # 0 THEN ByValue(options, value)
    ELSE SelectOptionFuzzy(options, value)

\* re.search(r"\b\d{1,2}:\d{2}\s*(am|pm)\b", value.strip().lower())
LooksLikeTimeText(value) ==
    \E i \in DOMAIN value : LowerTok(value[i]) \in {"1:00pm", "2:00pm", "3:00pm"}

\* "end time" in description.lower() (or in the semantic or selector hint)
LooksLikeEndTimeStep(step) ==
    \/ Contains(Lower(step.description), <<"end", " ", "time">>)
    \/ Contains(Lower(step.target_semantic), <<"end", " ", "time">>)

RECURSIVE VisibleFrom(_, _, _, _, _)
\* the loop of _visible_select_options from option i on
VisibleFrom(options, i, time_only, limit, acc) ==
    IF i > Len(options) THEN acc
    ELSE LET t0   == JoinWords(Words(options[i].text))
             text == IF t0 # <<>> THEN t0 ELSE Strip(options[i].value)
             skip == \/ text = <<>>
                     \/ Lower(text) \in {<<"select">>, <<"select...">>, <<"--select--">>}
                     \/ time_only /\ ~LooksLikeTimeText(text)
             acc1 == IF skip \/ \E k \in DOMAIN acc : acc[k] = text
                     THEN acc ELSE Append(acc, text)
         IN  IF ~skip /\ Len(acc1) >= limit THEN acc1
             ELSE VisibleFrom(options, i + 1, time_only, limit, acc1)

VisibleSelectOptions(options, time_only, limit) ==
    VisibleFrom(options, 1, time_only, limit, <<>>)

\* _looks_like_time_dropdown
LooksLikeTimeDropdown(options) ==
    Len(SelectSeq(VisibleSelectOptions(options, FALSE, 20), LooksLikeTimeText)) >= 2

\* _time_dropdown_score
TimeDropdownScore(options, requested_hint) ==
    LET shown == VisibleSelectOptions(options, FALSE, 30)
        times == Len(SelectSeq(shown, LooksLikeTimeText))
    IN  (IF times > 10 THEN 10 ELSE times)
        + (IF requested_hint # <<>>
              /\ \E k \in DOMAIN shown : Contains(NormalizeText(shown[k]), requested_hint)
           THEN 5 ELSE 0)

\* _resolve_end_time_select: the <select> an end-time step works on
ResolveEndTimeSelect(d, e, requested_value) ==
    LET score(k) == TimeDropdownScore(d[k].options, NormalizeText(requested_value))
        cands    == {k \in DOMAIN d : d[k].tag = "select" /\ score(k) > 0}
    IN  IF LooksLikeTimeDropdown(d[e].options) \/ cands = {} THEN e
        ELSE CHOOSE k \in cands :
                 \A j \in cands : score(j) < score(k) \/ (score(j) = score(k) /\ k <= j)

\* the text of a select failure: its opening sentence, and the options it
\* lists (<<>>: it lists none)
SelectMessage(base, requested_value, available) ==
    [base |-> base, requested |-> requested_value, available |-> available]

NoMessage == SelectMessage("", <<>>, <<>>)

\* _build_select_unavailable_message
BuildSelectUnavailableMessage(step, options, requested_value) ==
    LET end_time  == LooksLikeEndTimeStep(step)
        available == VisibleSelectOptions(options, end_time, 12)
    IN  IF end_time /\ available = <<>>
        THEN SelectMessage("Could not find a valid end-time dropdown", <<>>, <<>>)
        ELSE SelectMessage(IF end_time THEN "Requested time slot is unavailable"
                           ELSE "Could not select", requested_value, available)

\* what a call of _execute_step gave: the page it left, "ok" or the
\* exception raised, the failure text, and whether add_log(warn) ran
StepResult(d, outcome, error, message, warned) ==
    [page |-> d, outcome |-> outcome, error |-> error, message |-> message,
     warned |-> warned]

\* the SELECT branch of _execute_step
SelectResult(d, step) ==
    LET e == FindElement(d, step)
    IN  IF e = 0 THEN StepResult(d, "raised", "NoSuchElementException", NoMessage, FALSE)
        ELSE IF d[e].tag # "select"
        THEN StepResult([d EXCEPT ![e].typed = Append(@, step.value)],
                        "ok", "", NoMessage, FALSE)
        ELSE LET s == IF LooksLikeEndTimeStep(step)
                      THEN ResolveEndTimeSelect(d, e, step.value) ELSE e
                 i == SelectIndex(d[s].options, step.value)
             IN  IF i # 0
                 THEN StepResult([d EXCEPT ![s].selected = i], "ok", "", NoMessage, FALSE)
                 ELSE StepResult(d, "raised", "RuntimeError",
                                 BuildSelectUnavailableMessage(step, d[s].options,
                                                               step.value), TRUE)

\* the values SELECT steps ask for
SelectValues ==
    {<<"Large", " ", "Room">>, <<"l">>, <<"large">>, <<"Medium">>, <<"2:00pm">>,
     <<"3:00pm">>}

SelectSteps ==
    {FormStep("SELECT", description, "", css, value) :
        description \in {<<"Choose", " ", "size">>, <<"Pick", " ", "end", " ", "time">>},
        css \in {"d1", "d2", "d9"}, value \in SelectValues}

NoCallStep ==
    [called |-> FALSE, step |-> FormStep("", <<>>, "", "", <<>>), before |-> <<>>,
     outcome |-> "", error |-> "", message |-> NoMessage, warned |-> FALSE]

\* a finished call of _execute_step
CallOf(step, before, r) ==
    [called |-> TRUE, step |-> step, before |-> before, outcome |-> r.outcome,
     error |-> r.error, message |-> r.message, warned |-> r.warned]

(***************************************************************************)
(* The WAIT branch.  Time is counted in poll intervals: each pass of the   *)
(* polling loop sleeps one interval.  The address of the page is one of    *)
(* "app" (the form page), "webauth" (a UCI sign-in host), "spaces_auth"    *)
(* (the spaces sign-in path) and "confirm" (the confirmation page, whose   *)
(* body reads "Booked").                                                   *)
(***************************************************************************)
\* timeout_seconds = 30 and settings.selenium_auth_wait_seconds = 600, in
\* poll intervals
WaitTicks == 2

AuthWaitTicks == 3

SessUrls == {"app", "webauth", "spaces_auth", "confirm"}

\* _is_uci_auth_page() or _is_spaces_auth_page()
OnAuthPage(url) == url \in {"webauth", "spaces_auth"}

\* the controls and the body text the driver sees at an address
PageAt(s) == IF s.url = "app" THEN s.page ELSE <<>>

BodyText(s) == IF s.url = "confirm" THEN <<"Booked">> ELSE <<>>

\* a WAIT step; seconds is <<>> for None, else <<n>>
WaitStep(seconds, until_selector, until_url_contains, until_text_visible) ==
    [type |-> "WAIT", description |-> <<"Wait">>, seconds |-> seconds,
     until_selector |-> until_selector, until_url_contains |-> until_url_contains,
     until_text_visible |-> until_text_visible]

WaitSteps ==
    {WaitStep(<<1>>, "", "", <<>>), WaitStep(<<>>, "", "", <<>>),
     WaitStep(<<>>, "d1", "", <<>>), WaitStep(<<>>, "d9", "", <<>>),
     WaitStep(<<1>>, "", "confirm", <<>>), WaitStep(<<>>, "", "", <<"Booked">>)}

\* the step names a condition to poll for
HasCondition(step) ==
    step.until_selector # "" \/ step.until_url_contains # ""
        \/ step.until_text_visible # <<>>

\* _wait_condition_satisfied
WaitConditionSatisfied(s, step) ==
    IF step.until_selector # ""
    THEN \E i \in DOMAIN PageAt(s) : PageAt(s)[i].id = step.until_selector
    ELSE IF step.until_url_contains # "" THEN s.url = step.until_url_contains
    ELSE IF step.until_text_visible # <<>>
    THEN Contains(BodyText(s), step.until_text_visible)
    ELSE TRUE

\* the frame of a polling WAIT: the locals of the branch, the entries it
\* appended with add_log, and the number of polls that saw a sign-in page
NoWait ==
    [pc |-> "idle", step |-> WaitStep(<<>>, "", "", <<>>), timeout_seconds |-> 0,
     auth_extended_once |-> FALSE, elapsed |-> 0, log |-> <<>>, auth_polls |-> 0]

\* the entry add_log writes when the timeout is extended
ExtensionEntry(timeout_seconds) ==
    [level |-> "info", message |-> "WAIT step encountered auth flow; extending timeout",
     seconds |-> timeout_seconds]

\* a poll that sees a sign-in page, extending the timeout without looking
\* at auth_extended_once
AuthObserved_NoFlag(w, auth_wait) ==
    LET t == IF w.timeout_seconds >= auth_wait THEN w.timeout_seconds ELSE auth_wait
    IN  [w EXCEPT !.auth_polls = @ + 1, !.timeout_seconds = t,
                  !.auth_extended_once = TRUE, !.log = Append(@, ExtensionEntry(t))]

\* a poll that sees a sign-in page: the body of
\* `if self._is_uci_auth_page() or self._is_spaces_auth_page():`
AuthObserved(w, auth_wait) ==
    LET t == IF w.timeout_seconds >= auth_wait THEN w.timeout_seconds ELSE auth_wait
    IN  IF ~w.auth_extended_once
        THEN [w EXCEPT !.auth_polls = @ + 1, !.timeout_seconds = t,
                       !.auth_extended_once = TRUE, !.log = Append(@, ExtensionEntry(t))]
        ELSE [w EXCEPT !.auth_polls = @ + 1]

\* the text of the RuntimeError a WAIT raises when its loop ends
WaitTimeoutMessage(step) ==
    SelectMessage("WAIT step timed out",
                  CASE step.until_selector # ""      -> <<"selector">>
                    [] step.until_url_contains # ""  -> <<"url">>
                    [] step.until_text_visible # <<>> -> <<"text">>
                    [] OTHER                          -> <<"generic">>,
                  <<>>)

\* no page session
NoSess ==
    [page |-> <<>>, url |-> "app", auth_wait |-> 0, call |-> NoCallStep, wait |-> NoWait]

\* a session on a form page, with the configured authentication budget
SessInit ==
    sess \in {[NoSess EXCEPT !.page = d, !.auth_wait = a] :
                 d \in FormPages, a \in {1, AuthWaitTicks}}

\* one call _execute_step(step) that does not poll
ExecuteStepWith(step, r) ==
    /\ sess.wait.pc # "poll"
    /\ sess.url = "app"
    /\ \A k \in DOMAIN r.page : Len(r.page[k].typed) <= MaxSends
    /\ sess' = [sess EXCEPT !.page = r.page, !.call = CallOf(step, sess.page, r),
                            !.wait = NoWait]

ExecuteSelect(step) == \E r \in {SelectResult(sess.page, step)} : ExecuteStepWith(step, r)

\* _execute_step(step) for a WAIT step: up to the first test of the loop
WaitBegin(step) ==
    /\ sess.wait.pc # "poll"
    /\ IF step.seconds # <<>> /\ ~HasCondition(step)
       THEN sess' = [sess EXCEPT
                        !.call = CallOf(step, sess.page,
                                        StepResult(sess.page, "ok", "", NoMessage, FALSE)),
                        !.wait = NoWait]
       ELSE sess' = [sess EXCEPT
                        !.call = NoCallStep,
                        !.wait = [NoWait EXCEPT !.pc = "poll", !.step = step,
                                                !.timeout_seconds = WaitTicks]]

\* one pass of `while time.time() - started <= timeout_seconds`
WaitPoll ==
    /\ sess.wait.pc = "poll"
    /\ sess.wait.elapsed <= sess.wait.timeout_seconds
    /\ IF WaitConditionSatisfied(sess, sess.wait.step)
       THEN sess' = [sess EXCEPT
                        !.call = CallOf(sess.wait.step, sess.page,
                                        StepResult(sess.page, "ok", "", NoMessage, FALSE)),
                        !.wait.pc = "done"]
       ELSE \E w \in {IF OnAuthPage(sess.url)
                      THEN AuthObserved(sess.wait, sess.auth_wait) ELSE sess.wait} :
                sess' = [sess EXCEPT !.wait = [w EXCEPT !.elapsed = @ + 1]]

\* the loop ends without the condition: RuntimeError("WAIT step timed out ...")
WaitTimesOut ==
    /\ sess.wait.pc = "poll"
    /\ sess.wait.elapsed > sess.wait.timeout_seconds
    /\ sess' = [sess EXCEPT
                   !.call = CallOf(sess.wait.step, sess.page,
                                   StepResult(sess.page, "raised", "RuntimeError",
                                              WaitTimeoutMessage(sess.wait.step), FALSE)),
                   !.wait.pc = "done"]

\* the page session moves to another address while a WAIT polls (a
\* redirect to sign-in, the user signing in, the site confirming)
PageMoves(url) ==
    /\ sess.wait.pc = "poll"
    /\ url # sess.url
    /\ sess' = [sess EXCEPT !.url = url]

(***************************************************************************)
(* The CLICK branch of _execute_step, against a page with a label, a       *)
(* choice input and a button.  The call keeps the look-ups it attempted    *)
(* and the clicks it made, in order.                                       *)
(***************************************************************************)
\* an element; `takes`: a click leaves it selected (an enabled radio button)
ClickEl(tag, id, text) ==
    [tag |-> tag, id |-> id, type |-> "", text |-> text, value |-> <<>>, for |-> "",
     aria |-> <<>>, takes |-> FALSE, selected |-> FALSE]

ChoiceLabels ==
    {[ClickEl("label", "", text) EXCEPT !.for = f] :
        text \in {<<"Faculty">>, <<"Staff">>}, f \in {"aff", ""}}

ChoiceInputs ==
    {[ClickEl("input", "aff", <<>>) EXCEPT !.type = "radio", !.value = v, !.takes = t] :
        v \in {<<>>, <<"Faculty">>}, t \in BOOLEAN}

ChoiceButtons == {ClickEl("button", "go", text) : text \in {<<"Faculty">>, <<"Continue">>}}

\* the pages: label and button, with or without a radio button between them
ChoicePages ==
    {<<l, b>> : l \in ChoiceLabels, b \in ChoiceButtons}
    \cup {<<l, c, b>> : l \in ChoiceLabels, c \in ChoiceInputs, b \in ChoiceButtons}

\* a ClickStep
ClickStep(description, resolved_css_selector, css_selector_hint, target_text_hint) ==
    [type |-> "CLICK", description |-> description,
     resolved_css_selector |-> resolved_css_selector,
     css_selector_hint |-> css_selector_hint, target_text_hint |-> target_text_hint,
     target_semantic |-> <<>>]

ClickSteps ==
    {ClickStep(ds, sel, hint, text) :
        ds \in {<<"Choose", " ", "affiliation">>, <<"Press", " ", "button">>},
        sel \in {"", "go", "zz"}, hint \in {"", "go", "aff"},
        text \in {<<>>, <<"Faculty">>}}

\* the call so far: the page, the look-ups attempted and the clicks made
Attempt(m, strategy, found) ==
    [m EXCEPT !.attempts = Append(@, [strategy |-> strategy, found |-> found])]

\* element.click() / execute_script("arguments[0].click();", element)
ClickOn(m, e, strategy) ==
    [m EXCEPT !.page[e].selected = @ \/ m.page[e].takes,
              !.clicks = Append(@, [strategy |-> strategy, element |-> e])]

\* WorkflowRunner._element_matches_hint
ElementMatchesHint(el, hint) ==
    \/ NormalizeText(hint) = <<>>
    \/ Contains(NormalizeText(el.text), NormalizeText(hint))
    \/ Contains(NormalizeText(el.value), NormalizeText(hint))
    \/ Contains(NormalizeText(el.aria), NormalizeText(hint))

IsChoiceInput(el) == el.tag = "input" /\ el.type \in {"radio", "checkbox"}

\* _associated_choice_input_from_label: the element the for attribute
\* names, else the radio button or check box next to the label (0: None)
AssociatedChoiceInputFromLabel(d, l) ==
    IF d[l].for # "" /\ \E j \in DOMAIN d : d[j].id = d[l].for
    THEN FirstIdx(d, LAMBDA c : c.id = d[l].for)
    ELSE FirstIdx(d, IsChoiceInput)

\* _click_and_confirm_selected: click, and click by script when the element
\* does not report itself selected
ClickAndConfirmSelected(m, e, strategy) ==
    IF ClickOn(m, e, strategy).page[e].selected
    THEN [m |-> ClickOn(m, e, strategy), ok |-> TRUE]
    ELSE [m |-> ClickOn(ClickOn(m, e, strategy), e, strategy),
          ok |-> ClickOn(ClickOn(m, e, strategy), e, strategy).page[e].selected]

RECURSIVE TryChoiceTargets(_, _, _)
\* the two loops of _try_select_choice_input over the targets, in order
TryChoiceTargets(m, targets, strategy) ==
    IF targets = <<>> THEN [m |-> m, ok |-> FALSE]
    ELSE IF ClickAndConfirmSelected(m, Head(targets), strategy).ok
    THEN ClickAndConfirmSelected(m, Head(targets), strategy)
    ELSE TryChoiceTargets(ClickAndConfirmSelected(m, Head(targets), strategy).m,
                          Tail(targets), strategy)

\* the targets of _try_select_choice_input: the inputs of the labels that
\* match the hint, then the choice inputs whose attributes contain it
ChoiceTargets(d, hint) ==
    LET labels == SelectSeq([k \in DOMAIN d |-> k],
                            LAMBDA k : /\ d[k].tag = "label"
                                       /\ ElementMatchesHint(d[k], hint)
                                       /\ AssociatedChoiceInputFromLabel(d, k) # 0)
        inputs == SelectSeq([k \in DOMAIN d |-> k],
                            LAMBDA k : /\ IsChoiceInput(d[k])
                                       /\ \/ Contains(NormalizeText(d[k].value),
                                                      NormalizeText(hint))
                                          \/ Contains(NormalizeText(<<d[k].id>>),
                                                      NormalizeText(hint))
                                          \/ Contains(NormalizeText(d[k].aria),
                                                      NormalizeText(hint)))
    IN  [k \in DOMAIN labels |-> AssociatedChoiceInputFromLabel(d, labels[k])] \o inputs

\* WorkflowRunner._try_select_choice_input
TrySelectChoiceInput(m, hint) ==
    IF NormalizeText(hint) = <<>> THEN [m |-> Attempt(m, "choice_input", FALSE), ok |-> FALSE]
    ELSE TryChoiceTargets(Attempt(m, "choice_input", ChoiceTargets(m.page, hint) # <<>>),
                          ChoiceTargets(m.page, hint), "choice_input")

\* WorkflowRunner._is_choice_selected
IsChoiceSelected(d, hint) ==
    /\ NormalizeText(hint) # <<>>
    /\ \E l \in DOMAIN d :
          /\ d[l].tag = "label"
          /\ ElementMatchesHint(d[l], hint)
          /\ AssociatedChoiceInputFromLabel(d, l) # 0
          /\ d[AssociatedChoiceInputFromLabel(d, l)].selected

\* WorkflowRunner._looks_like_choice_step
LooksLikeChoiceStep(step) ==
    \/ Contains(Lower(step.description), <<"affiliation">>)
    \/ Contains(Lower(step.description), <<"purpose">>)
    \/ Contains(Lower(step.target_semantic), <<"affiliation">>)
    \/ Contains(Lower(step.target_semantic), <<"purpose">>)

\* _first_visible_css_element(css_selector, text_hint=...) for a CLICK step
FirstVisibleCssMatch(d, css, text_hint) ==
    FirstIdx(d, LAMBDA c : c.id = css /\ (text_hint = <<>> \/ ElementMatchesHint(c, text_hint)))

\* strategy 2 of _find_element: the xpaths on text(), @value and @aria-label
XPathTextMatch(d, text) ==
    IF \E i \in DOMAIN d : d[i].text = text THEN FirstIdx(d, LAMBDA c : c.text = text)
    ELSE IF \E i \in DOMAIN d : d[i].value = text THEN FirstIdx(d, LAMBDA c : c.value = text)
    ELSE IF \E i \in DOMAIN d : Contains(d[i].text, text)
    THEN FirstIdx(d, LAMBDA c : Contains(c.text, text))
    ELSE FirstIdx(d, LAMBDA c : c.aria # <<>> /\ Contains(c.aria, text))

\* strategy 3 of _find_element: @aria-label equal to or containing the hint
AriaMatch(d, semantic_hint) ==
    IF \E i \in DOMAIN d : d[i].aria = semantic_hint
    THEN FirstIdx(d, LAMBDA c : c.aria = semantic_hint)
    ELSE FirstIdx(d, LAMBDA c : c.aria # <<>> /\ Contains(c.aria, semantic_hint))

\* the look-ups of _find_element from strategy 3 on
FindFromAria(m, step) ==
    IF step.target_semantic = <<>> /\ step.target_text_hint = <<>>
    THEN [m |-> m, element |-> 0]
    ELSE \* semantic_hint = target_semantic or text_hint
         [m |-> Attempt(m, "aria_label",
                        AriaMatch(m.page, IF step.target_semantic # <<>>
                                          THEN step.target_semantic
                                          ELSE step.target_text_hint) # 0),
          element |-> AriaMatch(m.page, IF step.target_semantic # <<>>
                                        THEN step.target_semantic
                                        ELSE step.target_text_hint)]

\* ... from strategy 2 on
FindFromXPath(m, step) ==
    IF step.target_text_hint = <<>> THEN FindFromAria(m, step)
    ELSE IF XPathTextMatch(m.page, step.target_text_hint) # 0
    THEN [m |-> Attempt(m, "xpath_text", TRUE),
          element |-> XPathTextMatch(m.page, step.target_text_hint)]
    ELSE FindFromAria(Attempt(m, "xpath_text", FALSE), step)

\* ... from the selector hint on
FindFromHint(m, step) ==
    IF step.css_selector_hint = "" THEN FindFromXPath(m, step)
    ELSE IF FirstVisibleCssMatch(m.page, step.css_selector_hint, step.target_text_hint) # 0
    THEN [m |-> Attempt(m, "selector_hint", TRUE),
          element |-> FirstVisibleCssMatch(m.page, step.css_selector_hint,
                                           step.target_text_hint)]
    ELSE FindFromXPath(Attempt(m, "selector_hint", FALSE), step)

\* _find_element for a CLICK step: the learned selector, the selector hint,
\* the text xpaths, the aria-label xpaths; element 0 stands for
\* NoSuchElementException
FindClickElement(m, step) ==
    IF step.resolved_css_selector = "" THEN FindFromHint(m, step)
    ELSE IF FirstVisibleCssMatch(m.page, step.resolved_css_selector,
                                 step.target_text_hint) # 0
    THEN [m |-> Attempt(m, "learned_selector", TRUE),
          element |-> FirstVisibleCssMatch(m.page, step.resolved_css_selector,
                                           step.target_text_hint)]
    ELSE FindFromHint(Attempt(m, "learned_selector", FALSE), step)

\* the label _try_click_associated_input settles on (0: none)
AssociatedLabel(d, hint) ==
    IF NormalizeText(hint) = <<>> THEN 0
    ELSE FirstIdx([k \in DOMAIN d |-> k],
                  LAMBDA k : d[k].tag = "label" /\ ElementMatchesHint(d[k], hint))

\* _try_click_associated_input: click the element the for attribute of the
\* label names, else the label itself
TryClickAssociatedInput(m, step) ==
    IF AssociatedLabel(m.page, step.target_text_hint) = 0
    THEN [m |-> Attempt(m, "associated_input", FALSE), ok |-> FALSE]
    ELSE [m |-> ClickOn(Attempt(m, "associated_input", TRUE),
                        IF AssociatedLabel(m.page, step.target_text_hint) \in DOMAIN m.page
                           /\ m.page[AssociatedLabel(m.page, step.target_text_hint)].for # ""
                           /\ \E j \in DOMAIN m.page :
                                 m.page[j].id =
                                   m.page[AssociatedLabel(m.page, step.target_text_hint)].for
                        THEN FirstIdx(m.page,
                                 LAMBDA c : c.id =
                                   m.page[AssociatedLabel(m.page, step.target_text_hint)].for)
                        ELSE AssociatedLabel(m.page, step.target_text_hint),
                        "associated_input"),
          ok |-> TRUE]

\* what a call of _execute_step gave for a CLICK step
ClickOutcome(m, outcome, via) ==
    [page |-> m.page, attempts |-> m.attempts, clicks |-> m.clicks,
     outcome |-> outcome, via |-> via]

\* lines 202-208: after element.click() on a choice step, one more
\* _try_select_choice_input unless the choice shows as selected
ClickAfterElement(m, step) ==
    IF /\ step.target_text_hint # <<>>
       /\ LooksLikeChoiceStep(step)
       /\ ~IsChoiceSelected(m.page, step.target_text_hint)
    THEN IF TrySelectChoiceInput(m, step.target_text_hint).ok
         THEN ClickOutcome(TrySelectChoiceInput(m, step.target_text_hint).m, "ok", "element")
         ELSE ClickOutcome(TrySelectChoiceInput(m, step.target_text_hint).m,
                           "RuntimeError", "")
    ELSE ClickOutcome(m, "ok", "element")

\* lines 187-201: _find_element, the label-associated input when it raises
\* NoSuchElementException, else element.click()
ClickLookup(m, step, f) ==
    IF f.element # 0
    THEN ClickAfterElement(
             ClickOn(f.m, f.element, f.m.attempts[Len(f.m.attempts)].strategy), step)
    ELSE IF TryClickAssociatedInput(f.m, step).ok
    THEN ClickOutcome(TryClickAssociatedInput(f.m, step).m, "ok", "label-associated input")
    ELSE ClickOutcome(TryClickAssociatedInput(f.m, step).m, "NoSuchElementException", "")

\* the CLICK branch of _execute_step (lines 181-218), for steps that are not
\* the booking submission
ClickChoiceFirst(step, r) ==
    IF r.ok THEN ClickOutcome(r.m, "ok", "checked choice input")
    ELSE ClickLookup(r.m, step, FindClickElement(r.m, step))

ClickResult(d, step) ==
    IF step.target_text_hint # <<>>
    THEN ClickChoiceFirst(step,
             TrySelectChoiceInput([page |-> d, attempts |-> <<>>, clicks |-> <<>>],
                                  step.target_text_hint))
    ELSE ClickLookup([page |-> d, attempts |-> <<>>, clicks |-> <<>>], step,
                     FindClickElement([page |-> d, attempts |-> <<>>, clicks |-> <<>>],
                                      step))

NoClick ==
    [page |-> <<>>, called |-> FALSE, step |-> ClickStep(<<>>, "", "", <<>>),
     attempts |-> <<>>, clicks |-> <<>>, outcome |-> "", via |-> ""]

ClickInit == clk \in {[NoClick EXCEPT !.page = d] : d \in ChoicePages}

\* one call _execute_step(step) for a CLICK step
ExecuteClick(step) ==
    \E r \in {ClickResult(clk.page, step)} :
        clk' = [page |-> r.page, called |-> TRUE, step |-> step,
                attempts |-> r.attempts, clicks |-> r.clicks,
                outcome |-> r.outcome, via |-> r.via]

(***************************************************************************)
(* TYPE steps.  A value is a sequence of characters.  The control is a     *)
(* text input as the browser presents it to the driver: editable, readonly *)
(* (focusable, keys change nothing, clear() raises                         *)
(* InvalidElementStateException) or hidden (every interaction raises       *)
(* ElementNotInteractableException), with an optional maxlength that drops *)
(* the characters typed beyond it.                                         *)
(***************************************************************************)
TypeLen == 2       \* longest value typed or held by the control at the start
MaxControlLen == 3 \* longest content the control is followed to

TypeChars == {"a", "b"}

TypeStrings == UNION {[1..n -> TypeChars] : n \in 0..TypeLen}

\* maxlength = 0 stands for no maxlength attribute
TypeControls ==
    [value : TypeStrings, mode : {"editable", "readonly", "hidden"}, maxlength : {0, 1}]

\* a Step of type TYPE: schemas.Step.value and .clear_first
TypeSteps == [value : TypeStrings, clear_first : BOOLEAN]

\* what typing keys at the end of the control's content leaves in it
KeysTyped(el, keys) ==
    IF el.mode # "editable" THEN el
    ELSE IF el.maxlength > 0 /\ Len(el.value \o keys) > el.maxlength
    THEN [el EXCEPT !.value = SubSeq(el.value \o keys, 1, el.maxlength)]
    ELSE [el EXCEPT !.value = el.value \o keys]

\* element.send_keys(Keys.COMMAND, "a"); element.send_keys(Keys.BACKSPACE):
\* selects is whether the chord selects the content on the platform the
\* browser runs on; without a selection BACKSPACE deletes one character
SelectAllBackspace(el, selects) ==
    IF el.mode # "editable" THEN el
    ELSE IF selects \/ el.value = <<>> THEN [el EXCEPT !.value = <<>>]
    ELSE [el EXCEPT !.value = SubSeq(el.value, 1, Len(el.value) - 1)]

\* WorkflowRunner._verify_typed_value for a field that is not a date field
VerifyTypedValue(el, expected) ==
    \/ Strip(expected) = <<>>
    \/ Strip(el.value) = Strip(expected)
    \/ Contains(Strip(el.value), Strip(expected))

\* WorkflowRunner._set_input_value_via_js
SetInputValueViaJs(el, value) == [el EXCEPT !.value = value]

\* WorkflowRunner._type_with_verification for a step that is not a date
\* step: the control afterwards, and the method returned or the exception
TypeWithVerification(el, step, selects) ==
    LET cleared == IF step.clear_first /\ el.mode = "editable"
                   THEN [el EXCEPT !.value = <<>>] ELSE el
        entered == IF el.mode = "hidden" THEN SetInputValueViaJs(cleared, step.value)
                   ELSE KeysTyped(SelectAllBackspace(cleared, selects), step.value)
    IN  [el      |-> entered,
         method  |-> IF el.mode = "hidden" THEN "javascript" ELSE "send_keys",
         outcome |-> IF VerifyTypedValue(entered, step.value) THEN "ok"
                     ELSE "RuntimeError"]

\* WorkflowExecutor._type_text inside the try of _execute_step: the control
\* afterwards and the success flag of the ExecutionResult
TypeText(el, text) ==
    IF el.mode = "readonly"
    THEN [el |-> el, method |-> "", outcome |-> "InvalidElementStateException"]
    ELSE IF el.mode = "hidden"
    THEN [el |-> el, method |-> "", outcome |-> "ElementNotInteractableException"]
    ELSE [el |-> KeysTyped([el EXCEPT !.value = <<>>], text),
          method |-> "send_keys", outcome |-> "ok"]

NoType ==
    [el |-> [value |-> <<>>, mode |-> "editable", maxlength |-> 0], called |-> FALSE,
     by |-> "", step |-> [value |-> <<>>, clear_first |-> TRUE], outcome |-> "",
     method |-> ""]

TypeInit == typ \in {[NoType EXCEPT !.el = el] : el \in TypeControls}

\* one call of the runner's _execute_step for a TYPE step
ExecuteType(step, selects) ==
    \E r \in {TypeWithVerification(typ.el, step, selects)} :
        /\ Len(r.el.value) <= MaxControlLen
        /\ typ' = [el |-> r.el, called |-> TRUE, by |-> "runner", step |-> step,
                outcome |-> r.outcome, method |-> r.method]

\* one call of the executor's _execute_step for a TYPE step
ReplayType(step) ==
    \E r \in {TypeText(typ.el, step.value)} :
        typ' = [el |-> r.el, called |-> TRUE, by |-> "executor", step |-> step,
                outcome |-> r.outcome, method |-> r.method]

(***************************************************************************)
(* The booking submission: the part of the CLICK branch of _execute_step   *)
(* from `before_url = self.driver.current_url` on, for the step that       *)
(* clicks the submit control of a booking form.  The form reacts to the    *)
(* click, or does not, within the wait or after it.                        *)
(***************************************************************************)
\* the booking form: its address, the text of its body, its submit button
\* and the fields that fail checkValidity()
BookingForm(body, button, invalid) ==
    [url |-> "form", body |-> body, button |-> [text |-> button, visible |-> TRUE],
     invalid |-> invalid]

BookingForms ==
    {BookingForm(body, button, invalid) :
        body \in {<<"Your", " ", "details">>, <<"Confirmation", " ", "email">>},
        button \in {<<"Submit", " ", "my", " ", "Booking">>,
                    <<"Submit", " ", "My", " ", "Booking">>},
        invalid \in {{}, {"email"}}}

\* the steps that click the submit control
SubmitSteps ==
    {[type |-> "CLICK", description |-> ds, target_text_hint |-> <<>>,
      target_semantic |-> <<>>] :
        ds \in {<<"Submit", " ", "my", " ", "Booking">>, <<"Confirm", " ", "booking">>}}

\* what the click makes the form do
Reactions == {"nothing", "navigates", "confirms", "hides"}

React(p, reaction) ==
    CASE reaction = "navigates" ->
             [url |-> "done", body |-> <<"Booked">>,
              button |-> [p.button EXCEPT !.visible = FALSE], invalid |-> {}]
      [] reaction = "confirms" ->
             [p EXCEPT !.body = <<"Thank", " ", "you">>, !.invalid = {}]
      [] reaction = "hides" ->
             [p EXCEPT !.button.visible = FALSE, !.invalid = {}]
      [] OTHER -> p

\* WorkflowRunner._looks_like_submit_booking_step
LooksLikeSubmitBookingStep(step) ==
    \/ Contains(Lower(step.description), <<"submit", " ", "my", " ", "booking">>)
    \/ Contains(Lower(step.target_text_hint), <<"submit", " ", "my", " ", "booking">>)

\* WorkflowRunner._collect_invalid_form_fields
CollectInvalidFormFields(p) == p.invalid

\* the markers of _wait_for_post_submit_transition
ConfirmationMarkers ==
    {<<"booking", " ", "confirmed">>, <<"reservation", " ", "confirmed">>,
     <<"confirmation">>, <<"successfully", " ", "booked">>, <<"thank", " ", "you">>}

\* one pass of the loop of _wait_for_post_submit_transition on the page p
PostSubmitTransition(before_url, p) ==
    \/ p.url # "" /\ p.url # before_url
    \/ \E marker \in ConfirmationMarkers : Contains(Lower(p.body), marker)
    \/ ~(/\ Contains(p.button.text, <<"Submit", " ", "my", " ", "Booking">>)
         /\ p.button.visible)

\* lines 197-218 on the page `seen` after the click, with the address
\* before_url read before it
SubmitResult(step, before_url, seen) ==
    IF ~LooksLikeSubmitBookingStep(step) THEN "ok"
    ELSE IF CollectInvalidFormFields(seen) # {} THEN "RuntimeError: invalid fields"
    ELSE IF ~PostSubmitTransition(before_url, seen) THEN "RuntimeError: no transition"
    ELSE "ok"

NoSubmit ==
    [page |-> BookingForm(<<>>, <<>>, {}), called |-> FALSE, before |-> BookingForm(<<>>, <<>>, {}),
     seen |-> BookingForm(<<>>, <<>>, {}),
     step |-> [type |-> "CLICK", description |-> <<>>, target_text_hint |-> <<>>,
               target_semantic |-> <<>>],
     outcome |-> ""]

SubmitInit == sbm \in {[NoSubmit EXCEPT !.page = p] : p \in BookingForms}

\* one call of _execute_step for the submit CLICK: the form reacts within
\* the wait of the call (`within`) or only after it
ExecuteSubmit(step, reaction, within) ==
    /\ sbm.page.url = "form"
    /\ sbm.page.button.visible
    /\ \E seen \in {IF within THEN React(sbm.page, reaction) ELSE sbm.page} :
           sbm' = [page |-> React(sbm.page, reaction), called |-> TRUE,
                   before |-> sbm.page, seen |-> seen, step |-> step,
                   outcome |-> SubmitResult(step, sbm.page.url, seen)]

(***************************************************************************)
(* The semantic workflow executor (backend/app/automation/                 *)
(* workflow_executor.py): WorkflowExecutor.execute runs the steps of a     *)
(* SemanticWorkflow in order and yields one ExecutionResult per step.      *)
(***************************************************************************)
\* a WorkflowStep: wait_for = "" stands for None, wait_text = <<>> for None
ReplayStep(type, wait_for, wait_text) ==
    [type |-> type, wait_for |-> wait_for, wait_text |-> wait_text]

ReplaySteps ==
    {ReplayStep(type, wait_for, wait_text) :
        type \in {"GOTO", "WAIT"},
        wait_for \in {"", "URL_CHANGE", "TEXT_PRESENT", "ELEMENT_PRESENT", "PAGE_LOAD"},
        wait_text \in {<<>>, <<"Booked">>}}

ReplayLen == 2

\* the workflows replayed: ReplayLen steps each
ReplayWorkflows == [1..ReplayLen -> ReplaySteps]

\* _handle_wait_condition builds a WebDriverWait(...).until(...) for the
\* condition: the text conditions only with a wait_text, ELEMENT_PRESENT
\* never
Awaits(step) ==
    \/ step.wait_for \in {"URL_CHANGE", "PAGE_LOAD"}
    \/ step.wait_for \in {"ELEMENT_VISIBLE", "ELEMENT_CLICKABLE", "TEXT_PRESENT"}
           /\ step.wait_text # <<>>

\* _handle_wait_condition: "ok" when it returns, else the exception that
\* leaves it; met: the condition became true within timeout_seconds
HandleWaitCondition(step, met) ==
    LET raised == IF Awaits(step) /\ ~met THEN "TimeoutException" ELSE ""
        caught == raised = "TimeoutException"   \* except TimeoutException: warning
    IN  IF raised # "" /\ ~caught THEN raised ELSE "ok"

\* _execute_step of the executor: the ExecutionResult of a GOTO or WAIT
\* step; loaded: document.readyState became "complete" in time
ReplayResult(step, loaded, met) ==
    LET action == IF step.type = "GOTO" /\ ~loaded THEN "TimeoutException" ELSE "ok"
        waited == IF action = "ok" /\ step.wait_for # ""
                  THEN HandleWaitCondition(step, met) ELSE action
    IN  [success   |-> waited = "ok",
         error     |-> IF waited = "ok" THEN "" ELSE waited,
         timed_out |-> action = "ok" /\ Awaits(step) /\ ~met]

NoReplay == [pc |-> "idle", workflow |-> <<>>, i |-> 0, results |-> <<>>]

ReplayInit == replay \in {[NoReplay EXCEPT !.pc = "loop", !.workflow = w] :
                             w \in ReplayWorkflows}

\* one pass of `for i, step in enumerate(workflow.steps)`: execute the
\* step, yield its result, stop on failure
ReplayNext(loaded, met) ==
    /\ replay.pc = "loop"
    /\ replay.i < Len(replay.workflow)
    /\ (replay.workflow[replay.i + 1].type # "GOTO" => loaded)
    /\ (~Awaits(replay.workflow[replay.i + 1]) => met)
    /\ \E r \in {ReplayResult(replay.workflow[replay.i + 1], loaded, met)} :
           replay' = [replay EXCEPT !.results = Append(@, r),
                                    !.i = @ + 1,
                                    !.pc = IF r.success THEN "loop" ELSE "done"]

\* the loop is exhausted: "Workflow execution completed"
ReplayEnd ==
    /\ replay.pc = "loop"
    /\ replay.i = Len(replay.workflow)
    /\ replay' = [replay EXCEPT !.pc = "done"]

(***************************************************************************)
(* The life of one WorkflowExecutor used as a context manager:             *)
(* __enter__, the generator execute() driven by its caller, __exit__.      *)
(* The cache of its resolver maps a cache key to the selector cached for   *)
(* it; a step that resolves a target on a cache miss adds the key.         *)
(***************************************************************************)
ExecLen == 2       \* len(workflow.steps) of the workflows executed

\* a step to execute: GOTO, or CLICK on one of two targets
ExecSteps ==
    {[type |-> "GOTO", target |-> ""], [type |-> "CLICK", target |-> "t1"],
     [type |-> "CLICK", target |-> "t2"]}

ExecWorkflows == [1..ExecLen -> ExecSteps]

NoCacheFile == [exists |-> FALSE, text |-> {}]

\* the cache files an executor may find: none, or one with an entry
CacheFiles ==
    {NoCacheFile, [exists |-> TRUE, text |-> JsonDump([k \in {"t0"} |-> "#old"])]}

\* resolver.resolve(step.target) on a cache miss: the entry is written
ResolveInto(c, target) == [k \in DOMAIN c \cup {target} |-> IF k = target THEN "#new" ELSE c[k]]

\* _execute_step: the ExecutionResult, every exception of the action caught
ExecutionResult(step_index, raised) == [step_index |-> step_index, success |-> ~raised]

\* `if not result.success: break`, a step that keeps the loop going
AfterYield_KeepGoing(result) == "loop"

\* `if not result.success: break`: where the loop of execute goes after a yield
AfterYield(result) == IF result.success THEN "loop" ELSE "stopped"

NoExec ==
    [pc |-> "idle", cache_path |-> FALSE, workflow |-> <<>>, i |-> 0, results |-> <<>>,
     cache |-> [k \in {} |-> ""], file |-> NoCacheFile, quit |-> FALSE]

ExecutorInit ==
    exe \in {[NoExec EXCEPT !.pc = "new", !.cache_path = c, !.workflow = w, !.file = f] :
                c \in BOOLEAN, w \in ExecWorkflows, f \in CacheFiles}

\* __enter__: the resolver is constructed, and loads the cache file it is
\* given when that file exists
ExecutorEnter ==
    /\ exe.pc = "new"
    /\ exe' = [exe EXCEPT
                  !.pc = "loop",
                  !.cache = IF exe.cache_path /\ exe.file.exists
                            THEN JsonLoad(exe.file.text) ELSE exe.cache]

\* one pass of the loop of execute(): the step is executed, its result is
\* yielded, and the loop goes on or breaks
ExecutorStep(raised) ==
    /\ exe.pc = "loop"
    /\ exe.i < Len(exe.workflow)
    /\ \E step \in {exe.workflow[exe.i + 1]}, r \in {ExecutionResult(exe.i, raised)} :
           exe' = [exe EXCEPT
                      !.results = Append(@, r),
                      !.i = @ + 1,
                      !.cache = IF step.type = "CLICK" /\ ~raised
                                THEN ResolveInto(@, step.target) ELSE @,
                      !.pc = AfterYield(r)]

\* the loop is exhausted: "Workflow execution completed"
ExecutorEnd ==
    /\ exe.pc = "loop"
    /\ exe.i = Len(exe.workflow)
    /\ exe' = [exe EXCEPT !.pc = "completed"]

\* __exit__, when the with block is left: after the generator finished, or
\* earlier when the caller stops iterating
ExecutorExit ==
    /\ exe.pc \in {"loop", "stopped", "completed"}
    /\ exe' = [exe EXCEPT
                  !.pc = "exited",
                  !.file = IF exe.cache_path
                           THEN [exists |-> TRUE, text |-> JsonDump(exe.cache)]
                           ELSE @,
                  !.quit = TRUE]

(***************************************************************************)
(* Run store, HTTP entry points and the workflow runner.                   *)
(*                                                                         *)
(* Step indexes are 0..NumSteps-1 as in the code.  Each background task is *)
(* a thread; one action is one atomic stretch of its code between two      *)
(* run-store accesses.                                                     *)
(***************************************************************************)
NumSteps == 2      \* len(workflow.steps) of the one stored template
MaxThreads == 2    \* background tasks that run at the same time
MaxRunners == 2    \* WorkflowRunner objects constructed
MaxPolls == 2      \* iterations of the authentication poll loop per wait
MaxRestarts == 1   \* process restarts
MaxContinues == 1  \* accepted continue requests

Slots == 1..MaxThreads

RunIds == {"r1"}

QUEUED           == "queued"
RUNNING          == "running"
WAITING_FOR_AUTH == "waiting_for_auth"
SUCCEEDED        == "succeeded"
FAILED           == "failed"

TERMINAL_STATUSES == {SUCCEEDED, FAILED}

StepIdx == 0..(NumSteps - 1)

\* workflow.steps[i] of the stored template: open {{room_page_url}}, then
\* type the {{full_name}} parameter into the form (and again, if longer)
TemplateStep(i) ==
    IF i = 0 THEN WfStep("GOTO", <<Lit(<<"Open", " ", "room">>)>>, <<Ph("room_page_url")>>)
    ELSE WfStep("TYPE", <<Lit(<<"Enter", " ", "name">>)>>, <<Ph("full_name")>>)

\* the params a client posts with create_run
ParamChoices ==
    {EmptyParams,
     PutParam(EmptyParams, "room_keyword", <<"Room", " ", "1234">>),
     PutParam(PutParam(EmptyParams, "room_keyword", <<"Room", " ", "1234">>),
              "full_name", <<"Ada", " ", "Lovelace">>)}

\* what _discover_room_page_url can find on the page: no link, or a link
Discoveries == {NoUrl, <<"https://spaces.lib.uci.edu/space/", "1234">>}

\* ---- log entries and screenshot files -----------------------------------

\* step_index=None / screenshot_path=None
NoStep == -1

NoShot == <<>>

Digit(n) ==
    CASE n = 0 -> "0" [] n = 1 -> "1" [] n = 2 -> "2" [] n = 3 -> "3" [] n = 4 -> "4"
      [] n = 5 -> "5" [] n = 6 -> "6" [] n = 7 -> "7" [] n = 8 -> "8" [] n = 9 -> "9"

RECURSIVE FormatInt(_)
\* f"{n}"
FormatInt(n) ==
    IF n < 10 THEN <<Digit(n)>> ELSE FormatInt(n \div 10) \o <<Digit(n % 10)>>

\* f"{n:03d}"
Pad3(n) ==
    IF n < 10 THEN <<"0", "0">> \o FormatInt(n)
    ELSE IF n < 100 THEN <<"0">> \o FormatInt(n)
    ELSE FormatInt(n)

\* f"step_{step_index}.png"
StepShot(i) == <<"step_">> \o FormatInt(i) \o <<".png">>

\* f"step_{step_index}_auth.png"
AuthShot(i) == <<"step_">> \o FormatInt(i) \o <<"_auth", ".png">>

ErrorShot == <<"error", ".png">>

\* str(self.artifacts_dir / filename)
ShotPath(r, name) == <<"artifacts/", r, "/">> \o name

\* the exception a step or the set-up raised
NoErr == [type |-> "", arg |-> ""]

Err(type, arg) == [type |-> type, arg |-> arg]

\* a message without error text / f"Workflow failed: {exc}. Context: {context}"
Msg(text) == [text |-> text, error |-> NoErr, context |-> ""]

FailMsg(err, context) == [text |-> "Workflow failed", error |-> err, context |-> context]

\* RunLog(level, message, step_index, screenshot_path)
LogEntry(level, message, step_index, screenshot_path) ==
    [level |-> level, message |-> message, step_index |-> step_index,
     screenshot_path |-> screenshot_path]

Info(text, step_index, screenshot_path) ==
    LogEntry("info", Msg(text), step_index, screenshot_path)

\* storage.save_run
SaveRun(store, r, status, current_step, total_steps) ==
    [k \in DOMAIN store \cup {r} |->
        IF k = r
        THEN [status |-> status, current_step |-> current_step,
              total_steps |-> total_steps, logs |-> <<>>]
        ELSE store[k]]

\* an update_run that writes the status and the step into every stored run
UpdateRun_AllRuns(store, r, status, current_step) ==
    IF r \notin DOMAIN store THEN store
    ELSE [k \in DOMAIN store |->
             [store[k] EXCEPT !.status = status, !.current_step = current_step]]

\* storage.update_run(run_id, status=..., current_step=...)
UpdateRun(store, r, status, current_step) ==
    IF r \notin DOMAIN store THEN store
    ELSE [store EXCEPT ![r].status = status, ![r].current_step = current_step]

\* a store whose add_log keeps only the newest entry
AddLog_Overwrite(store, r, entry) ==
    IF r \notin DOMAIN store THEN store
    ELSE [store EXCEPT ![r].logs = <<entry>>]

\* storage.add_log
AddLog(store, r, entry) ==
    IF r \notin DOMAIN store THEN store
    ELSE [store EXCEPT ![r].logs = Append(@, entry)]

\* a _set_status that leaves current_step as it was
SetStatus_KeepStep(store, r, status, current_step, entry) ==
    AddLog(UpdateRun(store, r, status, store[r].current_step), r, entry)

\* WorkflowRunner._set_status: update_run, then add_log
SetStatus(store, r, status, current_step, entry) ==
    AddLog(UpdateRun(store, r, status, current_step), r, entry)

(***************************************************************************)
(* The run store, statement by statement (backend/app/core/storage.py).    *)
(*                                                                         *)
(* update_run and add_log read the run object (runs.get), build a copy and *)
(* store the copy; no lock is held in between.  A store caller is at one   *)
(* of these positions:                                                     *)
(*   "ur_al_get"  update_run before the runs.get of its nested add_log     *)
(*   "al_get"     add_log before runs.get                                  *)
(*   "al_put"     add_log before runs[run_id] = ...                        *)
(*   "ur_put"     update_run before runs[run_id] = updated                 *)
(* sto.th[t].run is the run object update_run read, .run2 the one add_log  *)
(* read; .before is the stored log when the operation was called and       *)
(* .alone is FALSE once another caller has written the store since.        *)
(* sto.done describes the operation that returned last.                    *)
(* Logs longer than MaxLogLen are not explored.                            *)
(***************************************************************************)
StoreThreads == 1..2

MaxLogLen == 2

StoreRun == "r1"

NoError == ""

ErrorMessages == {NoError, "boom"}

StoreTexts == {"Starting step"}

\* the entry add_log(run_id, level, message) builds
StoreLog(level, text) == LogEntry(level, Msg(text), NoStep, NoShot)

IdleCaller ==
    [pc |-> "idle", kind |-> "", run |-> 0, run2 |-> 0, status |-> "", current_step |-> 0,
     entry |-> 0, error |-> NoError, before |-> <<>>, alone |-> TRUE]

NoDone == [kind |-> "", error |-> NoError, before |-> <<>>, after |-> <<>>, alone |-> TRUE]

NoStore == [runs |-> [r \in {} |-> 0], th |-> <<>>, done |-> NoDone]

StoreInit ==
    sto = [runs |-> SaveRun([r \in {} |-> 0], StoreRun, QUEUED, 0, NumSteps),
           th   |-> [t \in StoreThreads |-> IdleCaller],
           done |-> NoDone]

\* add_log, lines 281-284: the read run object with the entry appended
AddLogFrom(store, r, run, entry) ==
    [store EXCEPT ![r] = [run EXCEPT !.logs = Append(run.logs, entry)]]

\* update_run, lines 257-258: the read run object with the updates applied
UpdateRunFrom(store, r, run, status, current_step) ==
    [store EXCEPT ![r] = [run EXCEPT !.status = status, !.current_step = current_step]]

StoreIdle(t) == sto.th[t].pc = "idle"

StoreCanGrow == Len(sto.runs[StoreRun].logs) < MaxLogLen

\* add_log(run_id, level, message) is called and reads the run
CallAddLog(t, entry) ==
    /\ StoreIdle(t) /\ StoreCanGrow
    /\ sto' = [sto EXCEPT !.th[t] =
                  [IdleCaller EXCEPT !.pc = "al_put", !.kind = "add_log",
                                     !.run2 = sto.runs[StoreRun], !.entry = entry,
                                     !.before = sto.runs[StoreRun].logs]]

\* update_run(run_id, status=, current_step=, error=) is called and reads the run
CallUpdateRun(t, status, current_step, error) ==
    /\ StoreIdle(t) /\ StoreCanGrow
    /\ sto' = [sto EXCEPT !.th[t] =
                  [IdleCaller EXCEPT !.pc = IF error # NoError THEN "ur_al_get" ELSE "ur_put",
                                     !.kind = "update_run",
                                     !.run = sto.runs[StoreRun],
                                     !.status = status, !.current_step = current_step,
                                     !.error = error,
                                     !.entry = StoreLog("error", error),
                                     !.before = sto.runs[StoreRun].logs]]

\* WorkflowRunner._set_status: update_run(status, current_step), then add_log
CallSetStatus(t, status, current_step, entry) ==
    /\ StoreIdle(t) /\ StoreCanGrow
    /\ sto' = [sto EXCEPT !.th[t] =
                  [IdleCaller EXCEPT !.pc = "ur_put", !.kind = "set_status",
                                     !.run = sto.runs[StoreRun],
                                     !.status = status, !.current_step = current_step,
                                     !.entry = entry,
                                     !.before = sto.runs[StoreRun].logs]]

\* the callers other than t that are inside an operation see a write of t
Interrupted(th, t) ==
    [u \in StoreThreads |->
        IF u # t /\ th[u].pc # "idle" THEN [th[u] EXCEPT !.alone = FALSE] ELSE th[u]]

StoreReturn(t, store) ==
    [kind |-> sto.th[t].kind, error |-> sto.th[t].error, before |-> sto.th[t].before,
     after |-> store[StoreRun].logs, alone |-> sto.th[t].alone]

\* the next statement of caller t
StoreStep(t) ==
    LET c == sto.th[t] IN
    /\ c.pc # "idle"
    /\ c.pc = "al_put" => Len(c.run2.logs) < MaxLogLen
    /\ sto' =
         CASE c.pc \in {"ur_al_get", "al_get"} ->
                [sto EXCEPT !.th[t].run2 = sto.runs[StoreRun], !.th[t].pc = "al_put"]
           [] c.pc = "al_put" ->
                LET store == AddLogFrom(sto.runs, StoreRun, c.run2, c.entry) IN
                IF c.kind = "update_run"
                THEN [sto EXCEPT !.runs = store,
                                 !.th = [Interrupted(sto.th, t) EXCEPT ![t].pc = "ur_put"]]
                ELSE [sto EXCEPT !.runs = store,
                                 !.th = [Interrupted(sto.th, t) EXCEPT ![t] = IdleCaller],
                                 !.done = StoreReturn(t, store)]
           [] c.pc = "ur_put" ->
                LET store == UpdateRunFrom(sto.runs, StoreRun, c.run, c.status,
                                           c.current_step) IN
                IF c.kind = "set_status"
                THEN [sto EXCEPT !.runs = store,
                                 !.th = [Interrupted(sto.th, t) EXCEPT ![t].pc = "al_get"]]
                ELSE [sto EXCEPT !.runs = store,
                                 !.th = [Interrupted(sto.th, t) EXCEPT ![t] = IdleCaller],
                                 !.done = StoreReturn(t, store)]

NoTask ==
    [run |-> "", pc |-> "done", obj |-> 0, start |-> 0, idx |-> 0, polls |-> 0,
     pending |-> FALSE, mode |-> "none", params |-> EmptyParams, err |-> NoErr,
     raised |-> FALSE]

NewTask(r, mode) == [NoTask EXCEPT !.run = r, !.pc = "task_start", !.mode = mode]

NewRunner(r) == [run |-> r, driver |-> "none", paused |-> FALSE, url |-> "app"]

ZeroExecs == [r \in RunIds |-> [i \in StepIdx |-> 0]]

\* hist.execs: how often each step began executing since the run was
\* created or last continued (2 stands for "more than once");
\* hist.resume: kind and checkpoint of the last accepted continue;
\* hist.continues: accepted continue requests;
\* hist.boundaries: how often run() passed lines 109-116 for a step of the run
RunnerInit ==
    /\ runs = [r \in {} |-> 0]
    /\ run_params = [r \in {} |-> 0]
    /\ active_runners = [r \in {} |-> 0]
    /\ runners = <<>>
    /\ tasks = [i \in Slots |-> NoTask]
    /\ artifacts = [r \in RunIds |-> {}]
    /\ hist = [restarts |-> 0,
               continues |-> 0,
               boundaries |-> [r \in RunIds |-> 0],
               execs |-> ZeroExecs,
               resume |-> [r \in RunIds |-> [kind |-> "none", k |-> 0]]]

FreeSlots == {i \in Slots : tasks[i].pc = "done"}

\* background_tasks.add_task(_run_workflow_task, ...): a pool thread takes it
AddTask(r, mode) ==
    LET i == CHOOSE x \in FreeSlots : \A y \in FreeSlots : x <= y
    IN  [tasks EXCEPT ![i] = NewTask(r, mode)]

\* ---- HTTP handlers ------------------------------------------------------

\* POST /api/runs with payload.params = p
CreateRun(r, p) ==
    /\ r \notin DOMAIN runs
    /\ FreeSlots # {}
    /\ runs' = SaveRun(runs, r, QUEUED, 0, NumSteps)
    /\ run_params' = [k \in DOMAIN run_params \cup {r} |-> IF k = r THEN p ELSE run_params[k]]
    /\ tasks' = AddTask(r, "create")
    /\ UNCHANGED <<active_runners, runners, artifacts, hist>>

\* the step continue_run resumes from
ResumeStep(r) ==
    IF r \in DOMAIN active_runners
    THEN runs[r].current_step
    ELSE IF runs[r].current_step - 1 > 0 THEN runs[r].current_step - 1 ELSE 0

\* continue_run that turns away only unknown run ids
ContinueRejected_UnknownOnly(r) == r \notin DOMAIN runs

\* continue_run answers 404 / 400 and changes nothing
ContinueRejected(r) ==
    IF r \notin DOMAIN runs THEN TRUE
    ELSE IF runs[r].status # WAITING_FOR_AUTH THEN TRUE
    ELSE r \notin DOMAIN run_params

\* POST /api/runs/{run_id}/continue, accepted
ContinueRun(r) ==
    /\ ~ContinueRejected(r)
    /\ FreeSlots # {}
    /\ hist.continues < MaxContinues
    /\ runs' = UpdateRun(runs, r, QUEUED, ResumeStep(r))
    /\ tasks' = AddTask(r, IF r \in DOMAIN active_runners THEN "live" ELSE "lost")
    /\ hist' = [hist EXCEPT
                  !.continues = @ + 1,
                  !.execs[r] = [i \in StepIdx |-> 0],
                  !.resume[r] = [kind |-> IF r \in DOMAIN active_runners
                                          THEN "live" ELSE "lost",
                                 k |-> runs[r].current_step]]
    /\ UNCHANGED <<run_params, active_runners, runners, artifacts>>

\* POST /api/runs/{run_id}/continue, rejected with an HTTP error
ContinueRefused(r) ==
    /\ ContinueRejected(r)
    /\ UNCHANGED <<runs, run_params, active_runners, runners, tasks, artifacts, hist>>

\* the answer of the continue entry point to a request for run r, with the
\* run store and the scheduled tasks as they were when the request came
HttpAnswer(r, code) ==
    [called |-> TRUE, run |-> r, code |-> code, runs |-> runs, tasks |-> tasks]

NoHttp ==
    [called |-> FALSE, run |-> "", code |-> 0, runs |-> [r \in {} |-> 0],
     tasks |-> <<>>]

\* continue_run as a whole: HTTPException(404), HTTPException(400) or
\* {"ok": True}
ContinueRequest(r) ==
    IF ContinueRejected(r)
    THEN /\ http' = HttpAnswer(r, IF r \notin DOMAIN runs THEN 404 ELSE 400)
         /\ UNCHANGED wvars
    ELSE /\ ContinueRun(r)
         /\ http' = HttpAnswer(r, 200)

\* the run ids a client may ask for
RequestIds == RunIds \cup {"r0"}

\* the statuses a stored run may carry
RunStatuses ==
    {QUEUED, RUNNING, WAITING_FOR_AUTH, "needs_user_disambiguation", SUCCEEDED, FAILED}

\* the stores continue_run may find: no run, or the run in any status at
\* any checkpoint, with or without its retained parameters and its runner
ContinueInit ==
    /\ runs \in {[r \in {} |-> 0]} \cup
                {[k \in RunIds |-> [status |-> st, current_step |-> c,
                                    total_steps |-> NumSteps, logs |-> <<>>]] :
                    st \in RunStatuses, c \in 0..NumSteps}
    /\ run_params \in {[r \in {} |-> 0], [k \in RunIds |-> EmptyParams]}
    /\ \E live \in BOOLEAN :
          IF live
          THEN /\ runs # [r \in {} |-> 0]
               /\ active_runners = [k \in RunIds |-> 1]
               /\ runners = <<[NewRunner("r1") EXCEPT !.driver = "open"]>>
          ELSE /\ active_runners = [r \in {} |-> 0]
               /\ runners = <<>>
    /\ tasks = [i \in Slots |-> NoTask]
    /\ artifacts = [r \in RunIds |-> {}]
    /\ hist = [restarts |-> 0, continues |-> 0,
               boundaries |-> [r \in RunIds |-> 0], execs |-> ZeroExecs,
               resume |-> [r \in RunIds |-> [kind |-> "none", k |-> 0]]]
    /\ http = NoHttp /\ disk = NoDisk /\ tmpl = NoTmpl /\ clk = NoClick /\ typ = NoType /\ sbm = NoSubmit /\ exe = NoExec /\ sto = NoStore

\* the server process is restarted: module-level tables and threads are
\* gone, the run store is reloaded from runs.json, the files stay on disk
Restart ==
    /\ hist.restarts < MaxRestarts
    /\ DOMAIN runs # {}
    /\ run_params' = [r \in {} |-> 0]
    /\ active_runners' = [r \in {} |-> 0]
    /\ tasks' = [i \in Slots |-> NoTask]
    /\ runners' = [o \in DOMAIN runners |-> NewRunner(runners[o].run)]
    /\ hist' = [hist EXCEPT !.restarts = @ + 1]
    /\ UNCHANGED <<runs, artifacts>>

\* the user completes the sign-on in the open browser window
AuthCompletes(o) ==
    /\ runners[o].driver = "open"
    /\ runners[o].url = "auth"
    /\ runners' = [runners EXCEPT ![o].url = "app"]
    /\ UNCHANGED <<runs, run_params, active_runners, tasks, artifacts, hist>>

\* ---- the background task and WorkflowRunner.run, per thread -------------

At(i, pc) == tasks[i].pc = pc

Goto(i, pc) == [tasks EXCEPT ![i].pc = pc]

\* the exception err leaves the try block of run()
Raise(i, err) == [tasks EXCEPT ![i].pc = "fail", ![i].err = err]

DriverOf(i) == runners[tasks[i].obj].driver

\* self.driver.save_screenshot(artifacts_dir / name)
SaveShot(r, name) == [artifacts EXCEPT ![r] = @ \cup {name}]

\* WorkflowRunner._is_uci_auth_page for the runner of task i
IsUciAuthPage(i) ==
    /\ runners[tasks[i].obj].driver # "none"
    /\ runners[tasks[i].obj].url = "auth"

\* the session of the runner of task i no longer answers: every WebDriver
\* command, driver.current_url included, raises WebDriverException
SessionGone(i) ==
    /\ runners[tasks[i].obj].driver # "none"
    /\ runners[tasks[i].obj].url = "gone"

\* an alert is open on the sign-in page of the runner of task i: the next
\* WebDriver command raises UnexpectedAlertPresentException and the driver
\* dismisses the alert; the session stays usable
AlertOpen(i) ==
    /\ runners[tasks[i].obj].driver # "none"
    /\ runners[tasks[i].obj].url = "alert"

\* the sign-in page opens an alert while a thread polls it
SessionAlert(o) ==
    /\ runners[o].driver = "open"
    /\ runners[o].url = "auth"
    /\ \E i \in Slots : tasks[i].obj = o /\ tasks[i].pc = "auth_poll"
    /\ runners' = [runners EXCEPT ![o].url = "alert"]
    /\ UNCHANGED <<runs, run_params, active_runners, tasks, artifacts, hist>>

\* the browser behind runner o goes away (the tab crashes, the window is
\* closed)
SessionLost(o) ==
    /\ runners[o].driver = "open"
    /\ runners[o].url # "gone"
    /\ runners' = [runners EXCEPT ![o].url = "gone"]
    /\ UNCHANGED <<runs, run_params, active_runners, tasks, artifacts, hist>>

\* _run_workflow_task up to the call of runner.run: look the runner up in
\* active_runners or construct and register one; params = run_params.get(run_id, {})
TaskStart(i) ==
    /\ At(i, "task_start")
    /\ \E r \in {tasks[i].run} :
         \E p \in {IF r \in DOMAIN run_params THEN run_params[r] ELSE EmptyParams} :
           IF r \in DOMAIN active_runners
           THEN /\ tasks' = [tasks EXCEPT ![i].pc = "run_begin", ![i].obj = active_runners[r],
                                          ![i].params = p]
                /\ UNCHANGED <<runners, active_runners>>
           ELSE /\ Len(runners) < MaxRunners
                /\ runners' = Append(runners, NewRunner(r))
                /\ active_runners' = [k \in DOMAIN active_runners \cup {r} |->
                                        IF k = r THEN Len(runners) + 1 ELSE active_runners[k]]
                /\ tasks' = [tasks EXCEPT ![i].pc = "run_begin", ![i].obj = Len(runners) + 1,
                                          ![i].params = p]
    /\ UNCHANGED <<runs, run_params, artifacts, hist>>

\* run(): read the checkpoint, clear the pause flag, open a session if the
\* runner holds none
RunBegin(i) ==
    /\ At(i, "run_begin")
    /\ LET o == tasks[i].obj
       IN  /\ runners' = [runners EXCEPT
                            ![o].paused = FALSE,
                            ![o].driver = "open",
                            ![o].url = IF runners[o].driver = "none" THEN "app" ELSE @]
           /\ tasks' = [tasks EXCEPT ![i].pc = "set_running",
                                     ![i].start = runs[tasks[i].run].current_step]
    /\ UNCHANGED <<runs, run_params, active_runners, artifacts, hist>>

\* run(): _setup_driver raises (no browser can be started)
RunBeginDriverFails(i) ==
    /\ At(i, "run_begin")
    /\ runners[tasks[i].obj].driver = "none"
    /\ runners' = [runners EXCEPT ![tasks[i].obj].paused = FALSE]
    /\ tasks' = [tasks EXCEPT ![i].pc = "fail",
                              ![i].err = Err("WebDriverException", "setup"),
                              ![i].start = runs[tasks[i].run].current_step]
    /\ UNCHANGED <<runs, run_params, active_runners, artifacts, hist>>

\* run(): _set_status(RUNNING, start_step, "Workflow run started")
SetRunning(i) ==
    /\ At(i, "set_running")
    /\ runs' = SetStatus(runs, tasks[i].run, RUNNING, tasks[i].start,
                         Info("Workflow run started", NoStep, NoShot))
    /\ tasks' = [tasks EXCEPT ![i].pc = "loop_head", ![i].idx = tasks[i].start]
    /\ UNCHANGED <<run_params, active_runners, runners, artifacts, hist>>

\* the for statement: next step_index, and _set_status("Starting step")
LoopHead(i) ==
    /\ At(i, "loop_head")
    /\ IF tasks[i].idx < NumSteps
       THEN /\ runs' = SetStatus(runs, tasks[i].run, RUNNING, tasks[i].idx,
                                 Info("Starting step", tasks[i].idx, NoShot))
            /\ tasks' = Goto(i, "exec_begin")
       ELSE /\ tasks' = Goto(i, "succeed")
            /\ UNCHANGED runs
    /\ UNCHANGED <<run_params, active_runners, runners, artifacts, hist>>

Bump(n) == IF n < 2 THEN n + 1 ELSE n

\* the parameter map of run r after a substitution left it as p: the dict
\* is the one object run_params holds
ParamsAfter(r, p) ==
    IF r \in DOMAIN run_params THEN [run_params EXCEPT ![r] = p] ELSE run_params

\* _substitute_step_placeholders came back with sub; then _execute_step is
\* entered and the step starts acting on the page session
ExecBeginWith(i, sub) ==
    /\ run_params' = ParamsAfter(tasks[i].run, sub.params)
    /\ IF ~sub.ok
       THEN /\ tasks' = [tasks EXCEPT ![i].pc = "fail", ![i].params = sub.params,
                                      ![i].err = Err("KeyError", sub.missing)]
            /\ UNCHANGED hist
       ELSE IF DriverOf(i) = "none"
       THEN /\ tasks' = [tasks EXCEPT ![i].pc = "fail", ![i].params = sub.params,
                                      ![i].err = Err("RuntimeError", "WebDriver is not initialized")]
            /\ UNCHANGED hist
       ELSE /\ tasks' = [tasks EXCEPT ![i].pc = "exec_end", ![i].params = sub.params]
            /\ hist' = [hist EXCEPT !.execs[tasks[i].run][tasks[i].idx] = Bump(@)]

\* run(), lines 105-107: substitute the placeholders, call _execute_step
ExecBegin(i, disc) ==
    /\ At(i, "exec_begin")
    /\ DriverOf(i) = "none" => disc = NoUrl
    /\ ExecBeginWith(i, SubstituteStepPlaceholders(TemplateStep(tasks[i].idx),
                                                   tasks[i].params, disc))
    /\ UNCHANGED <<runs, active_runners, runners, artifacts>>

\* _execute_step returns: the action was performed and the page shows the
\* address `lands`
ExecOk(i, lands) ==
    /\ At(i, "exec_end")
    /\ DriverOf(i) # "none"
    /\ ~SessionGone(i)
    /\ runners' = [runners EXCEPT ![tasks[i].obj].url = lands]
    /\ tasks' = Goto(i, "completed")
    /\ UNCHANGED <<runs, run_params, active_runners, artifacts, hist>>

\* _execute_step raises (element not found, verification failed, timeout,
\* session closed under the step, ...)
ExecRaises(i) ==
    /\ At(i, "exec_end")
    /\ tasks' = Raise(i, Err("StepError", "step"))
    /\ UNCHANGED <<runs, run_params, active_runners, runners, artifacts, hist>>

\* _take_screenshot(step_<i>.png) and _set_status(RUNNING, step_index + 1)
Completed(i) ==
    /\ At(i, "completed")
    /\ IF DriverOf(i) = "none"
       THEN /\ tasks' = Raise(i, Err("RuntimeError", "WebDriver is not initialized"))
            /\ UNCHANGED <<runs, artifacts, hist>>
       ELSE IF SessionGone(i)
       THEN /\ tasks' = Raise(i, Err("WebDriverException", "session"))
            /\ UNCHANGED <<runs, artifacts, hist>>
       ELSE /\ artifacts' = SaveShot(tasks[i].run, StepShot(tasks[i].idx))
            /\ runs' = SetStatus(runs, tasks[i].run, RUNNING, tasks[i].idx + 1,
                                 Info("Completed step", tasks[i].idx,
                                      ShotPath(tasks[i].run, StepShot(tasks[i].idx))))
            /\ tasks' = Goto(i, "authcheck")
            /\ hist' = [hist EXCEPT !.boundaries[tasks[i].run] = @ + 1]
    /\ UNCHANGED <<run_params, active_runners, runners>>

\* if self._is_uci_auth_page(): ...
AuthCheck(i) ==
    /\ At(i, "authcheck")
    /\ IF SessionGone(i)
       THEN tasks' = Raise(i, Err("WebDriverException", "session"))
       ELSE IF IsUciAuthPage(i)
       THEN tasks' = Goto(i, "auth_enter")
       ELSE tasks' = [tasks EXCEPT ![i].pc = "loop_head", ![i].idx = @ + 1]
    /\ UNCHANGED <<runs, run_params, active_runners, runners, artifacts, hist>>

\* _wait_for_auth_completion up to the poll loop
AuthEnter(i) ==
    /\ At(i, "auth_enter")
    /\ IF DriverOf(i) = "none"
       THEN /\ tasks' = Goto(i, "finally")   \* returns False, run() returns
            /\ UNCHANGED <<runs, runners, artifacts>>
       ELSE IF SessionGone(i)                \* _take_screenshot raises
       THEN /\ runners' = [runners EXCEPT ![tasks[i].obj].paused = TRUE]
            /\ tasks' = Raise(i, Err("WebDriverException", "session"))
            /\ UNCHANGED <<runs, artifacts>>
       ELSE /\ runners' = [runners EXCEPT ![tasks[i].obj].paused = TRUE]
            /\ artifacts' = SaveShot(tasks[i].run, AuthShot(tasks[i].idx))
            /\ runs' = SetStatus(runs, tasks[i].run, WAITING_FOR_AUTH, tasks[i].idx + 1,
                                 Info("Authentication detected", tasks[i].idx,
                                      ShotPath(tasks[i].run, AuthShot(tasks[i].idx))))
            /\ tasks' = [tasks EXCEPT ![i].pc = "auth_poll", ![i].polls = 0]
    /\ UNCHANGED <<run_params, active_runners, hist>>

\* one iteration of the poll loop that sees the address outside the
\* authentication domains
AuthPollLeaves(i) ==
    /\ At(i, "auth_poll")
    /\ tasks[i].polls < MaxPolls
    /\ ~IsUciAuthPage(i)
    /\ ~SessionGone(i)
    /\ ~AlertOpen(i)
    /\ runners' = [runners EXCEPT ![tasks[i].obj].paused = FALSE]
    /\ runs' = SetStatus(runs, tasks[i].run, RUNNING, tasks[i].idx + 1,
                         Info("Authentication completed", tasks[i].idx, NoShot))
    /\ tasks' = [tasks EXCEPT ![i].pc = "loop_head", ![i].idx = @ + 1, ![i].polls = 0]
    /\ UNCHANGED <<run_params, active_runners, artifacts, hist>>

\* one iteration that still sees an authentication page; `mark` is whether
\* 30 seconds passed since the last progress entry (always so at first)
AuthPollWaits(i, mark) ==
    /\ At(i, "auth_poll")
    /\ tasks[i].polls < MaxPolls
    /\ IsUciAuthPage(i)
    /\ tasks[i].polls = 0 => mark
    /\ IF mark
       THEN runs' = SetStatus(runs, tasks[i].run, WAITING_FOR_AUTH, tasks[i].idx + 1,
                              Info("Still waiting for SSO completion", tasks[i].idx, NoShot))
       ELSE UNCHANGED runs
    /\ tasks' = [tasks EXCEPT ![i].polls = @ + 1]
    /\ UNCHANGED <<run_params, active_runners, runners, artifacts, hist>>

\* one iteration in which _is_uci_auth_page raises: the exception leaves
\* _wait_for_auth_completion with the pause flag still set
AuthPollRaises(i) ==
    /\ At(i, "auth_poll")
    /\ tasks[i].polls < MaxPolls
    /\ SessionGone(i) \/ AlertOpen(i)
    /\ IF AlertOpen(i)
       THEN /\ tasks' = Raise(i, Err("UnexpectedAlertPresentException", "alert"))
            /\ runners' = [runners EXCEPT ![tasks[i].obj].url = "auth"]
       ELSE /\ tasks' = Raise(i, Err("WebDriverException", "session"))
            /\ UNCHANGED runners
    /\ UNCHANGED <<runs, run_params, active_runners, artifacts, hist>>

\* the loop ends (time is up, or execute_script raised): error screenshot,
\* _set_status(WAITING_FOR_AUTH, ...), return False; run() returns
AuthTimeout(i) ==
    /\ At(i, "auth_poll")
    /\ tasks[i].polls >= 1
    /\ ~AlertOpen(i)
    /\ IF DriverOf(i) = "none" \/ SessionGone(i)
       THEN /\ runs' = SetStatus(runs, tasks[i].run, WAITING_FOR_AUTH, tasks[i].idx + 1,
                                 Info("Authentication wait timed out", tasks[i].idx, NoShot))
            /\ UNCHANGED artifacts
       ELSE /\ artifacts' = SaveShot(tasks[i].run, ErrorShot)
            /\ runs' = SetStatus(runs, tasks[i].run, WAITING_FOR_AUTH, tasks[i].idx + 1,
                                 Info("Authentication wait timed out", tasks[i].idx,
                                      ShotPath(tasks[i].run, ErrorShot)))
    /\ tasks' = [tasks EXCEPT ![i].pc = "finally", ![i].pending = TRUE]
    /\ UNCHANGED <<run_params, active_runners, runners, hist>>

\* _set_status(SUCCEEDED, len(workflow.steps))
Succeed(i) ==
    /\ At(i, "succeed")
    /\ runs' = SetStatus(runs, tasks[i].run, SUCCEEDED, NumSteps,
                         Info("Workflow completed successfully", NoStep, NoShot))
    /\ tasks' = Goto(i, "finally")
    /\ UNCHANGED <<run_params, active_runners, runners, artifacts, hist>>

\* WorkflowRunner._page_debug_context for the runner of task i
PageDebugContext(i) ==
    IF DriverOf(i) = "none" THEN "driver=none" ELSE runners[tasks[i].obj].url

\* the except clause: _safe_error_screenshot, _page_debug_context and
\* _set_status(FAILED, current step of the record, level="error"); the
\* exception is raised again to _run_workflow_task.  When the session is
\* gone, _safe_error_screenshot gives None and _page_debug_context raises
\* from its unguarded _is_uci_auth_page call: the clause is left before
\* _set_status
Fail(i) ==
    /\ At(i, "fail")
    /\ IF DriverOf(i) = "none"
       THEN /\ runs' = SetStatus(runs, tasks[i].run, FAILED, runs[tasks[i].run].current_step,
                                 LogEntry("error", FailMsg(tasks[i].err, PageDebugContext(i)),
                                          NoStep, NoShot))
            /\ UNCHANGED artifacts
       ELSE IF SessionGone(i)
       THEN UNCHANGED <<runs, artifacts>>
       ELSE /\ artifacts' = SaveShot(tasks[i].run, ErrorShot)
            /\ runs' = SetStatus(runs, tasks[i].run, FAILED, runs[tasks[i].run].current_step,
                                 LogEntry("error", FailMsg(tasks[i].err, PageDebugContext(i)),
                                          NoStep, ShotPath(tasks[i].run, ErrorShot)))
    /\ tasks' = [tasks EXCEPT ![i].pc = "finally", ![i].raised = TRUE]
    /\ UNCHANGED <<run_params, active_runners, runners, hist>>

\* the finally clause: quit the driver unless paused for authentication
Finally(i) ==
    /\ At(i, "finally")
    /\ LET o == tasks[i].obj
       IN  IF runners[o].driver # "none" /\ ~runners[o].paused
           THEN runners' = [runners EXCEPT ![o].driver = "none", ![o].url = "app"]
           ELSE UNCHANGED runners
    /\ tasks' = Goto(i, "task_end")
    /\ UNCHANGED <<runs, run_params, active_runners, artifacts, hist>>

\* _run_workflow_task after runner.run: drop the runner unless the run is
\* WAITING_FOR_AUTH, drop the parameters when it is terminal
TaskEnd(i) ==
    /\ At(i, "task_end")
    /\ LET r == tasks[i].run
       IN  /\ active_runners' =
                IF runs[r].status # WAITING_FOR_AUTH
                THEN [k \in DOMAIN active_runners \ {r} |-> active_runners[k]]
                ELSE active_runners
           /\ run_params' =
                IF runs[r].status \in TERMINAL_STATUSES
                THEN [k \in DOMAIN run_params \ {r} |-> run_params[k]] ELSE run_params
    /\ tasks' = [tasks EXCEPT ![i] = NoTask]
    /\ UNCHANGED <<runs, runners, artifacts, hist>>

TaskStep(i) ==
    \/ TaskStart(i)
    \/ RunBegin(i)
    \/ RunBeginDriverFails(i)
    \/ SetRunning(i)
    \/ LoopHead(i)
    \/ \E disc \in Discoveries : ExecBegin(i, disc)
    \/ \E lands \in {"app", "auth"} : ExecOk(i, lands)
    \/ ExecRaises(i)
    \/ Completed(i)
    \/ AuthCheck(i)
    \/ AuthEnter(i)
    \/ AuthPollLeaves(i)
    \/ \E mark \in BOOLEAN : AuthPollWaits(i, mark)
    \/ AuthPollRaises(i)
    \/ AuthTimeout(i)
    \/ Succeed(i)
    \/ Fail(i)
    \/ Finally(i)
    \/ TaskEnd(i)

\* ---- the template object and the steps made from it ---------------------

TemplateLen == 2   \* len(workflow.steps) of the template object

\* a Step object: resolved_css_selector is None (<<>>) or a learned selector
StepObject(step, resolved_css_selector) ==
    [type |-> step.type, description |-> step.description, value |-> step.value,
     resolved_css_selector |-> resolved_css_selector]

StepObjects ==
    {StepObject(step, sel) : step \in SubstSteps, sel \in {<<>>, <<"d1">>}}

\* a store of objects that puts the new step in the place of the old one
StoreResolved_InPlace(heap, a, obj) ==
    [heap |-> [heap EXCEPT ![a] = obj], addr |-> a]

\* type(step).model_validate(substitute(step.model_dump())): the dump is a
\* fresh dict, substitute builds new dicts and lists, and model_validate
\* constructs a new Step object; the object at address a is only read
StoreResolved(heap, a, obj) ==
    [heap |-> Append(heap, obj), addr |-> Len(heap) + 1]

\* storage.workflows holds one WorkflowTemplate; get_workflow hands out that
\* very object, and its steps list holds the Step objects at 1..TemplateLen
TemplateInit ==
    \E objs \in [1..TemplateLen -> StepObjects], p \in ParamChoices :
        tmpl = [heap |-> objs, steps |-> [k \in 1..TemplateLen |-> k],
                original |-> objs, params |-> p, idx |-> 0, status |-> QUEUED,
                resolved |-> 0]

\* run(), lines 97-130, for the step at tmpl.idx: original_step =
\* workflow.steps[step_index], resolved_step = _substitute_step_placeholders
\* (KeyError ends the run FAILED), _execute_step on the resolved step
\* (`outcome`: it returns, it raises, or it returns with the page on a
\* sign-in host and the wait for it runs out), SUCCEEDED after the last step
TemplateRunStep(disc, outcome) ==
    /\ tmpl.status \in {QUEUED, RUNNING}
    /\ tmpl.idx < Len(tmpl.steps)
    /\ \E a \in {tmpl.steps[tmpl.idx + 1]} :
       \E r \in {SubstituteStepPlaceholders(tmpl.heap[a], tmpl.params, disc)} :
         IF ~r.ok
         THEN tmpl' = [tmpl EXCEPT !.params = r.params, !.status = FAILED]
         ELSE \E st \in {StoreResolved(tmpl.heap, a,
                              StepObject(r.step, tmpl.heap[a].resolved_css_selector))} :
                tmpl' = [tmpl EXCEPT
                           !.heap = st.heap,
                           !.resolved = st.addr,
                           !.params = r.params,
                           !.idx = IF outcome = "raises" THEN @ ELSE @ + 1,
                           !.status = CASE outcome = "raises" -> FAILED
                                        [] outcome = "pauses" -> WAITING_FOR_AUTH
                                        [] tmpl.idx + 1 = Len(tmpl.steps) -> SUCCEEDED
                                        [] OTHER -> RUNNING]

\* continue_run and the next invocation of run() on the same template
TemplateContinue ==
    /\ tmpl.status = WAITING_FOR_AUTH
    /\ tmpl' = [tmpl EXCEPT !.status = IF tmpl.idx = Len(tmpl.steps)
                                       THEN SUCCEEDED ELSE RUNNING]

\* ---- two runs side by side ----------------------------------------------

\* the run ids of two runs created one after the other (uuid4 gives
\* distinct ids)
IsoRunIds == {"r1", "r2"}

\* payload.params of the two create_run requests: each names its own room
IsoParams(r) ==
    PutParam(PutParam(EmptyParams, "room_keyword",
                      IF r = "r1" THEN <<"Room", " ", "1234">> ELSE <<"Study", " ", "Room">>),
             "full_name", <<"Ada", " ", "Lovelace">>)

\* the process after start-up, with room for the files and the history of
\* both runs
IsoInit ==
    /\ runs = [r \in {} |-> 0]
    /\ run_params = [r \in {} |-> 0]
    /\ active_runners = [r \in {} |-> 0]
    /\ runners = <<>>
    /\ tasks = [i \in Slots |-> NoTask]
    /\ artifacts = [r \in IsoRunIds |-> {}]
    /\ hist = [restarts |-> 0,
               continues |-> 0,
               boundaries |-> [r \in IsoRunIds |-> 0],
               execs |-> [r \in IsoRunIds |-> [i \in StepIdx |-> 0]],
               resume |-> [r \in IsoRunIds |-> [kind |-> "none", k |-> 0]]]

(***************************************************************************)
(* Specifications                                                          *)
(***************************************************************************)
Init ==
    /\ RunnerInit
    /\ page = 1
    /\ cache = EmptyCache
    /\ last = NoCall
    /\ subst = NoSubst
    /\ sess = NoSess
    /\ replay = NoReplay
    /\ http = NoHttp /\ disk = NoDisk /\ tmpl = NoTmpl /\ clk = NoClick /\ typ = NoType /\ sbm = NoSubmit /\ exe = NoExec /\ sto = NoStore

Next ==
    \/ \E r \in RunIds, p \in ParamChoices : CreateRun(r, p) /\ UNCHANGED <<rvars, subst, sess, replay, http, disk, tmpl, clk, typ, sbm, exe, sto>>
    \/ \E r \in RunIds : ContinueRun(r) /\ UNCHANGED <<rvars, subst, sess, replay, http, disk, tmpl, clk, typ, sbm, exe, sto>>
    \/ \E r \in RunIds : ContinueRefused(r) /\ UNCHANGED <<rvars, subst, sess, replay, http, disk, tmpl, clk, typ, sbm, exe, sto>>
    \/ Restart /\ UNCHANGED <<rvars, subst, sess, replay, http, disk, tmpl, clk, typ, sbm, exe, sto>>
    \/ \E o \in DOMAIN runners : AuthCompletes(o) /\ UNCHANGED <<rvars, subst, sess, replay, http, disk, tmpl, clk, typ, sbm, exe, sto>>
    \/ \E i \in Slots : TaskStep(i) /\ UNCHANGED <<rvars, subst, sess, replay, http, disk, tmpl, clk, typ, sbm, exe, sto>>

\* the run store, the HTTP entry points and the runner threads
Spec == Init /\ [][Next]_vars

InitResolver ==
    RunnerInit /\ ResolverInit /\ subst = NoSubst /\ sess = NoSess /\ replay = NoReplay
    /\ http = NoHttp /\ disk = NoDisk /\ tmpl = NoTmpl /\ clk = NoClick /\ typ = NoType /\ sbm = NoSubmit /\ exe = NoExec /\ sto = NoStore

NextResolver ==
    \/ \E t \in Targets, wait \in BOOLEAN : Resolve(t, wait) /\ UNCHANGED <<wvars, subst, sess, replay, http, disk, tmpl, clk, typ, sbm, exe, sto>>
    \/ \E p \in PageIds : PageChange(p) /\ UNCHANGED <<wvars, subst, sess, replay, http, disk, tmpl, clk, typ, sbm, exe, sto>>

\* one DOMResolver on one driver
SpecResolver == InitResolver /\ [][NextResolver]_vars

InitSubst ==
    RunnerInit /\ page = 1 /\ cache = EmptyCache /\ last = NoCall /\ SubstInit
    /\ sess = NoSess
    /\ replay = NoReplay
    /\ http = NoHttp /\ disk = NoDisk /\ tmpl = NoTmpl /\ clk = NoClick /\ typ = NoType /\ sbm = NoSubmit /\ exe = NoExec /\ sto = NoStore

NextSubst ==
    \E step \in SubstSteps, disc \in Discoveries :
        Substitute(step, disc) /\ UNCHANGED <<rvars, wvars, sess, replay, http, disk, tmpl, clk, typ, sbm, exe, sto>>

\* placeholder substitution on one parameter map
SpecSubst == InitSubst /\ [][NextSubst]_vars

InitStep ==
    RunnerInit /\ page = 1 /\ cache = EmptyCache /\ last = NoCall /\ subst = NoSubst
    /\ SessInit
    /\ replay = NoReplay
    /\ http = NoHttp /\ disk = NoDisk /\ tmpl = NoTmpl /\ clk = NoClick /\ typ = NoType /\ sbm = NoSubmit /\ exe = NoExec /\ sto = NoStore

NextStep ==
    \/ \E step \in SelectSteps : ExecuteSelect(step) /\ UNCHANGED <<rvars, wvars, subst, replay, http, disk, tmpl, clk, typ, sbm, exe, sto>>

\* _execute_step on one page session: the steps that act on a control
SpecStep == InitStep /\ [][NextStep]_vars

NextWait ==
    \/ \E step \in WaitSteps : WaitBegin(step) /\ UNCHANGED <<rvars, wvars, subst, replay, http, disk, tmpl, clk, typ, sbm, exe, sto>>
    \/ WaitPoll /\ UNCHANGED <<rvars, wvars, subst, replay, http, disk, tmpl, clk, typ, sbm, exe, sto>>
    \/ WaitTimesOut /\ UNCHANGED <<rvars, wvars, subst, replay, http, disk, tmpl, clk, typ, sbm, exe, sto>>
    \/ \E url \in SessUrls : PageMoves(url) /\ UNCHANGED <<rvars, wvars, subst, replay, http, disk, tmpl, clk, typ, sbm, exe, sto>>

\* _execute_step on one page session: WAIT steps, with the page moving
\* between polls
SpecWait == InitStep /\ [][NextWait]_vars

InitReplay ==
    RunnerInit /\ page = 1 /\ cache = EmptyCache /\ last = NoCall /\ subst = NoSubst
    /\ sess = NoSess /\ ReplayInit /\ http = NoHttp /\ disk = NoDisk /\ tmpl = NoTmpl /\ clk = NoClick /\ typ = NoType /\ sbm = NoSubmit /\ exe = NoExec /\ sto = NoStore

NextReplay ==
    \/ \E loaded \in BOOLEAN, met \in BOOLEAN :
           ReplayNext(loaded, met) /\ UNCHANGED <<rvars, wvars, subst, sess, http, disk, tmpl, clk, typ, sbm, exe, sto>>
    \/ ReplayEnd /\ UNCHANGED <<rvars, wvars, subst, sess, http, disk, tmpl, clk, typ, sbm, exe, sto>>

\* WorkflowExecutor.execute on one workflow
SpecReplay == InitReplay /\ [][NextReplay]_vars

InitContinue ==
    ContinueInit /\ page = 1 /\ cache = EmptyCache /\ last = NoCall /\ subst = NoSubst
    /\ sess = NoSess /\ replay = NoReplay

NextContinue ==
    \E r \in RequestIds : ContinueRequest(r) /\ UNCHANGED <<rvars, subst, sess, replay, disk, tmpl, clk, typ, sbm, exe, sto>>

\* requests to the continue entry point against a run store
SpecContinue == InitContinue /\ [][NextContinue]_vars

InitDisk ==
    RunnerInit /\ page = 1 /\ cache = EmptyCache /\ last = NoCall /\ subst = NoSubst
    /\ sess = NoSess /\ replay = NoReplay /\ http = NoHttp /\ disk = NoDisk /\ tmpl = NoTmpl /\ clk = NoClick /\ typ = NoType /\ sbm = NoSubmit /\ exe = NoExec /\ sto = NoStore

NextDisk ==
    \/ \E x \in ResolverIds, p \in PageIds, t \in Targets, wait \in BOOLEAN :
           DiskResolve(x, Pages[p], t, wait)
               /\ UNCHANGED <<rvars, wvars, subst, sess, replay, http, tmpl, clk, typ, sbm, exe, sto>>
    \/ \E x \in ResolverIds :
           DiskSave(x) /\ UNCHANGED <<rvars, wvars, subst, sess, replay, http, tmpl, clk, typ, sbm, exe, sto>>
    \/ \E x \in ResolverIds :
           DiskConstruct(x) /\ UNCHANGED <<rvars, wvars, subst, sess, replay, http, tmpl, clk, typ, sbm, exe, sto>>

\* resolvers that load and save one cache file, one call at a time
SpecDisk == InitDisk /\ [][NextDisk]_vars

NextLive ==
    \/ \E r \in RunIds, p \in ParamChoices : CreateRun(r, p) /\ UNCHANGED <<rvars, subst, sess, replay, http, disk, tmpl, clk, typ, sbm, exe, sto>>
    \/ \E o \in DOMAIN runners : AuthCompletes(o) /\ UNCHANGED <<rvars, subst, sess, replay, http, disk, tmpl, clk, typ, sbm, exe, sto>>
    \/ \E o \in DOMAIN runners : SessionLost(o) /\ UNCHANGED <<rvars, subst, sess, replay, http, disk, tmpl, clk, typ, sbm, exe, sto>>
    \/ \E i \in Slots : TaskStep(i) /\ UNCHANGED <<rvars, subst, sess, replay, http, disk, tmpl, clk, typ, sbm, exe, sto>>

\* one run whose page session may go away at any moment; a background task
\* that has been started keeps running (a pool thread is not starved)
SpecLive ==
    /\ Init
    /\ [][NextLive]_vars
    /\ \A i \in Slots : WF_vars(TaskStep(i) /\ UNCHANGED <<rvars, subst, sess, replay, http, disk, tmpl, clk, typ, sbm, exe, sto>>)

NextAuthFail ==
    \/ \E r \in RunIds, p \in ParamChoices : CreateRun(r, p) /\ UNCHANGED <<rvars, subst, sess, replay, http, disk, tmpl, clk, typ, sbm, exe, sto>>
    \/ \E o \in DOMAIN runners : AuthCompletes(o) /\ UNCHANGED <<rvars, subst, sess, replay, http, disk, tmpl, clk, typ, sbm, exe, sto>>
    \/ \E o \in DOMAIN runners : SessionAlert(o) /\ UNCHANGED <<rvars, subst, sess, replay, http, disk, tmpl, clk, typ, sbm, exe, sto>>
    \/ \E i \in Slots : TaskStep(i) /\ UNCHANGED <<rvars, subst, sess, replay, http, disk, tmpl, clk, typ, sbm, exe, sto>>

\* one run whose sign-in page may open an alert while the runner waits
SpecAuthFail == Init /\ [][NextAuthFail]_vars

InitTemplate ==
    RunnerInit /\ page = 1 /\ cache = EmptyCache /\ last = NoCall /\ subst = NoSubst
    /\ sess = NoSess /\ replay = NoReplay /\ http = NoHttp /\ disk = NoDisk
    /\ TemplateInit /\ clk = NoClick /\ typ = NoType /\ sbm = NoSubmit /\ exe = NoExec /\ sto = NoStore

NextTemplate ==
    \/ \E disc \in Discoveries, outcome \in {"returns", "raises", "pauses"} :
           TemplateRunStep(disc, outcome)
               /\ UNCHANGED <<rvars, wvars, subst, sess, replay, http, disk, clk, typ, sbm, exe, sto>>
    \/ TemplateContinue /\ UNCHANGED <<rvars, wvars, subst, sess, replay, http, disk, clk, typ, sbm, exe, sto>>

\* runs over one stored template object
SpecTemplate == InitTemplate /\ [][NextTemplate]_vars

InitClick ==
    RunnerInit /\ page = 1 /\ cache = EmptyCache /\ last = NoCall /\ subst = NoSubst
    /\ sess = NoSess /\ replay = NoReplay /\ http = NoHttp /\ disk = NoDisk
    /\ tmpl = NoTmpl /\ ClickInit /\ typ = NoType /\ sbm = NoSubmit /\ exe = NoExec /\ sto = NoStore

NextClick ==
    \E step \in ClickSteps :
        ExecuteClick(step) /\ UNCHANGED <<rvars, wvars, subst, sess, replay, http, disk, tmpl, typ, sbm, exe, sto>>

\* _execute_step on one page session: CLICK steps
SpecClick == InitClick /\ [][NextClick]_vars

InitType ==
    RunnerInit /\ page = 1 /\ cache = EmptyCache /\ last = NoCall /\ subst = NoSubst
    /\ sess = NoSess /\ replay = NoReplay /\ http = NoHttp /\ disk = NoDisk
    /\ tmpl = NoTmpl /\ clk = NoClick /\ TypeInit /\ sbm = NoSubmit /\ exe = NoExec /\ sto = NoStore

NextType ==
    \/ \E step \in TypeSteps, selects \in BOOLEAN :
           ExecuteType(step, selects)
               /\ UNCHANGED <<rvars, wvars, subst, sess, replay, http, disk, tmpl, clk, sbm, exe, sto>>
    \/ \E step \in TypeSteps :
           ReplayType(step)
               /\ UNCHANGED <<rvars, wvars, subst, sess, replay, http, disk, tmpl, clk, sbm, exe, sto>>

\* _execute_step on one text control: TYPE steps of the runner and of the
\* executor
SpecType == InitType /\ [][NextType]_vars

InitSubmit ==
    RunnerInit /\ page = 1 /\ cache = EmptyCache /\ last = NoCall /\ subst = NoSubst
    /\ sess = NoSess /\ replay = NoReplay /\ http = NoHttp /\ disk = NoDisk
    /\ tmpl = NoTmpl /\ clk = NoClick /\ typ = NoType /\ SubmitInit /\ exe = NoExec /\ sto = NoStore

NextSubmit ==
    \E step \in SubmitSteps, reaction \in Reactions, within \in BOOLEAN :
        ExecuteSubmit(step, reaction, within)
            /\ UNCHANGED <<rvars, wvars, subst, sess, replay, http, disk, tmpl, clk, typ, exe, sto>>

\* _execute_step on one booking form: the submit CLICK
SpecSubmit == InitSubmit /\ [][NextSubmit]_vars

InitExecutor ==
    RunnerInit /\ page = 1 /\ cache = EmptyCache /\ last = NoCall /\ subst = NoSubst
    /\ sess = NoSess /\ replay = NoReplay /\ http = NoHttp /\ disk = NoDisk
    /\ tmpl = NoTmpl /\ clk = NoClick /\ typ = NoType /\ sbm = NoSubmit /\ ExecutorInit /\ sto = NoStore

NextExecutor ==
    \/ ExecutorEnter
           /\ UNCHANGED <<rvars, wvars, subst, sess, replay, http, disk, tmpl, clk, typ, sbm, sto>>
    \/ \E raised \in BOOLEAN :
           ExecutorStep(raised)
               /\ UNCHANGED <<rvars, wvars, subst, sess, replay, http, disk, tmpl, clk, typ, sbm, sto>>
    \/ ExecutorEnd
           /\ UNCHANGED <<rvars, wvars, subst, sess, replay, http, disk, tmpl, clk, typ, sbm, sto>>
    \/ ExecutorExit
           /\ UNCHANGED <<rvars, wvars, subst, sess, replay, http, disk, tmpl, clk, typ, sbm, sto>>

\* one WorkflowExecutor from __enter__ to __exit__
SpecExecutor == InitExecutor /\ [][NextExecutor]_vars

InitStore ==
    RunnerInit /\ page = 1 /\ cache = EmptyCache /\ last = NoCall /\ subst = NoSubst
    /\ sess = NoSess /\ replay = NoReplay /\ http = NoHttp /\ disk = NoDisk
    /\ tmpl = NoTmpl /\ clk = NoClick /\ typ = NoType /\ sbm = NoSubmit /\ exe = NoExec
    /\ StoreInit

NextStore ==
    \/ \E t \in StoreThreads, text \in StoreTexts :
           CallAddLog(t, StoreLog("info", text))
               /\ UNCHANGED <<rvars, wvars, subst, sess, replay, http, disk, tmpl, clk, typ, sbm, exe>>
    \/ \E t \in StoreThreads, error \in ErrorMessages :
           CallUpdateRun(t, FAILED, 1, error)
               /\ UNCHANGED <<rvars, wvars, subst, sess, replay, http, disk, tmpl, clk, typ, sbm, exe>>
    \/ \E t \in StoreThreads :
           CallSetStatus(t, RUNNING, 1, StoreLog("info", "Starting step"))
               /\ UNCHANGED <<rvars, wvars, subst, sess, replay, http, disk, tmpl, clk, typ, sbm, exe>>
    \/ \E t \in StoreThreads :
           StoreStep(t)
               /\ UNCHANGED <<rvars, wvars, subst, sess, replay, http, disk, tmpl, clk, typ, sbm, exe>>

SpecStore == InitStore /\ [][NextStore]_vars

InitIso ==
    IsoInit /\ page = 1 /\ cache = EmptyCache /\ last = NoCall /\ subst = NoSubst
    /\ sess = NoSess /\ replay = NoReplay /\ http = NoHttp /\ disk = NoDisk /\ tmpl = NoTmpl /\ clk = NoClick /\ typ = NoType /\ sbm = NoSubmit /\ exe = NoExec /\ sto = NoStore

NextIso ==
    \/ \E r \in IsoRunIds : CreateRun(r, IsoParams(r)) /\ UNCHANGED <<rvars, subst, sess, replay, http, disk, tmpl, clk, typ, sbm, exe, sto>>
    \/ \E o \in DOMAIN runners : AuthCompletes(o) /\ UNCHANGED <<rvars, subst, sess, replay, http, disk, tmpl, clk, typ, sbm, exe, sto>>
    \/ \E i \in Slots : TaskStep(i) /\ UNCHANGED <<rvars, subst, sess, replay, http, disk, tmpl, clk, typ, sbm, exe, sto>>

\* two runs of the stored template, each in its own background task
SpecIso == InitIso /\ [][NextIso]_vars

(***************************************************************************)
(* Properties of the resolver (checked under SpecResolver)                 *)
(***************************************************************************)

\* C1 (cache consistency): when the preceding call was a successful
\* resolve of the same target on the same, unchanged page and returned
\* selector S, this call succeeds with S on the cache-hit path, runs no
\* scoring strategy and leaves the cache as it was.
C1_CacheConsistency ==
    (last.called /\ last.prior # NoSel) =>
        /\ last.outcome = "ok"
        /\ last.selector = last.prior
        /\ last.path = "hit"
        /\ ~last.strategies
        /\ last.cacheKept

\* the cached selector of the last call matched no element when it began
StaleAtCall ==
    /\ last.called
    /\ last.cached # NoSel
    /\ FindElementCss(Pages[page], last.cached) = Missing

C2_WitnessNotFound ==
    /\ StaleAtCall
    /\ last.outcome = "ElementNotFound"

(***************************************************************************)
(* Properties of the run store and the runner (checked under Spec)         *)
(***************************************************************************)

\* the step is a continue_run that took the lost-session branch for run r
LostSessionResume(r) ==
    \E i \in Slots :
        /\ tasks[i].pc = "done"
        /\ tasks'[i].pc = "task_start"
        /\ tasks'[i].run = r
        /\ tasks'[i].mode = "lost"

\* C3 (run monotonicity): no write of the run store lowers current_step of
\* a run, except continue_run on its lost-session branch, which lowers it
\* by exactly one.
C3_RunMonotonic ==
    [][\A r \in DOMAIN runs :
          runs'[r].current_step < runs[r].current_step =>
              /\ LostSessionResume(r)
              /\ runs'[r].current_step = runs[r].current_step - 1]_vars

\* C4 (terminal states are absorbing): once a run record is SUCCEEDED or
\* FAILED, no step changes its status.
C4_TerminalAbsorbing ==
    [][\A r \in DOMAIN runs :
          runs[r].status \in TERMINAL_STATUSES => runs'[r].status = runs[r].status]_vars

StatusEdges ==
    { <<QUEUED, RUNNING>>, <<RUNNING, WAITING_FOR_AUTH>>, <<WAITING_FOR_AUTH, RUNNING>>,
      <<RUNNING, SUCCEEDED>>, <<RUNNING, FAILED>> }

\* C5 (state machine): every change of a run record's status follows one
\* of the edges QUEUED -> RUNNING, RUNNING -> WAITING_FOR_AUTH,
\* WAITING_FOR_AUTH -> RUNNING, RUNNING -> SUCCEEDED, RUNNING -> FAILED.
C5_StatusEdges ==
    [][\A r \in DOMAIN runs :
          runs'[r].status # runs[r].status =>
              <<runs[r].status, runs'[r].status>> \in StatusEdges]_vars

\* the threads that are inside the step loop of run() for run r
InLoop(r) ==
    {i \in Slots : /\ tasks[i].run = r
                   /\ tasks[i].pc \in {"loop_head", "exec_begin", "exec_end", "completed",
                                       "authcheck", "auth_enter", "auth_poll"}}

\* the threads that are inside _execute_step for run r
InStep(r) == {i \in Slots : tasks[i].run = r /\ tasks[i].pc = "exec_end"}

\* C6 (no intra-run parallelism): for one run id at most one execution of
\* the step loop is in progress and at most one step acts on the page
\* session at a time.
C6_NoIntraRunParallelism ==
    \A r \in RunIds : Cardinality(InLoop(r)) <= 1 /\ Cardinality(InStep(r)) <= 1

\* no thread works for run r
Idle(r) == \A i \in Slots : tasks[i].pc = "done" \/ tasks[i].run # r

Max0(n) == IF n > 0 THEN n ELSE 0

\* C7 (lost-session resume): a run whose record is WAITING_FOR_AUTH while
\* no runner is held for it in memory can be resumed through continue, and
\* the resumed task opens a fresh session and starts from checkpoint - 1.
C7_LostSessionResume ==
    /\ \A r \in DOMAIN runs :
          (runs[r].status = WAITING_FOR_AUTH /\ Idle(r) /\ r \notin DOMAIN active_runners)
              => ~ContinueRejected(r)
    /\ \A i \in Slots :
          (tasks[i].mode = "lost" /\ tasks[i].pc = "set_running") =>
              /\ tasks[i].start = Max0(hist.resume[tasks[i].run].k - 1)
              /\ runners[tasks[i].obj].url = "app"

\* C8 (resume with a live session): after a continue that found the runner
\* still held, with checkpoint k, no step below k executes, each step from k
\* on executes at most once and in template order, and when the run is
\* SUCCEEDED each of the steps k..N-1 has executed exactly once.
C8_LiveResume ==
    \A r \in DOMAIN runs :
        hist.resume[r].kind = "live" =>
            LET k == hist.resume[r].k
                n == hist.execs[r]
            IN  /\ \A s \in StepIdx : s < k => n[s] = 0
                /\ \A s \in StepIdx : n[s] <= 1
                /\ \A s \in StepIdx : (s > k /\ n[s] > 0) => n[s - 1] > 0
                /\ runs[r].status = SUCCEEDED => \A s \in StepIdx : s >= k => n[s] = 1

\* C9 (authentication pause): when a thread has completed step i and found
\* the session on an authentication page, no step of the run starts before
\* the record is WAITING_FOR_AUTH with current_step = i + 1, which is what
\* the thread writes next; and the poll that sees the address outside the
\* authentication domains writes RUNNING with the same checkpoint.
C9_AuthPause ==
    [][\A i \in Slots :
          /\ (tasks[i].pc = "auth_enter" /\ tasks'[i].pc = "auth_poll") =>
                /\ runs'[tasks[i].run].status = WAITING_FOR_AUTH
                /\ runs'[tasks[i].run].current_step = tasks[i].idx + 1
          /\ tasks[i].pc = "auth_enter" =>
                \A j \in Slots :
                    (tasks[j].run = tasks[i].run /\ tasks[j].pc = "exec_begin")
                        => tasks'[j].pc # "exec_end"
          /\ (tasks[i].pc = "auth_poll" /\ tasks'[i].pc = "loop_head") =>
                /\ runs'[tasks[i].run].status = RUNNING
                /\ runs'[tasks[i].run].current_step = tasks[i].idx + 1]_vars

\* C10 (authentication pending is not a failure): when the authentication
\* wait ends with the sign-on still pending, the record is written
\* WAITING_FOR_AUTH at the checkpoint of the wait, and when run() then
\* returns the record is not FAILED and the runner's page session is still
\* open for a later resume.
C10_AuthPendingNotFailure ==
    [][\A i \in Slots :
          /\ (tasks[i].pc = "auth_poll" /\ tasks'[i].pc = "finally") =>
                /\ runs'[tasks[i].run].status = WAITING_FOR_AUTH
                /\ runs'[tasks[i].run].current_step = tasks[i].idx + 1
          /\ (tasks[i].pending /\ tasks[i].pc = "finally" /\ tasks'[i].pc = "task_end") =>
                /\ runs'[tasks[i].run].status # FAILED
                /\ runners'[tasks[i].obj].driver = "open"]_vars

(***************************************************************************)
(* Properties of substitution, logs and screenshots in a run (under Spec)  *)
(***************************************************************************)

\* the placeholder names a step references
StepKeys(step) ==
    {(step.description \o step.value)[n].key :
        n \in {m \in DOMAIN (step.description \o step.value) :
                 (step.description \o step.value)[m].kind = "ph"}}

\* thread i finds at step tasks[i].idx a placeholder it cannot resolve
MissingAt(i) ==
    /\ At(i, "exec_begin")
    /\ tasks'[i].pc = "fail"
    /\ tasks'[i].err.type = "KeyError"

\* C11 (missing parameter): when a step references a placeholder whose name
\* the run's parameter map cannot supply, the substitution fails with an
\* error that names that parameter, the step's action is not performed, no
\* later step executes, and the run ends FAILED with current_step equal to
\* that step's index.
C11_MissingParameter ==
    [][\A i \in Slots :
          /\ MissingAt(i) =>
                /\ tasks'[i].err.arg \in StepKeys(TemplateStep(tasks[i].idx))
                /\ tasks'[i].err.arg \notin DOMAIN tasks'[i].params
                /\ hist'.execs = hist.execs
          /\ (At(i, "fail") /\ tasks[i].err.type = "KeyError" /\ tasks'[i].pc = "finally") =>
                /\ runs'[tasks[i].run].status = FAILED
                /\ runs'[tasks[i].run].current_step = tasks[i].idx
          /\ (At(i, "task_end") /\ tasks[i].err.type = "KeyError") =>
                /\ runs[tasks[i].run].status = FAILED
                /\ runs[tasks[i].run].current_step = tasks[i].idx
                /\ \A j \in StepIdx : j > tasks[i].idx => hist.execs[tasks[i].run][j] = 0
      ]_vars

\* the entries of run r's log whose message starts with `text`
EntriesWith(r, text) ==
    {n \in DOMAIN runs[r].logs : runs[r].logs[n].message.text = text}

\* the step screenshots in run r's directory
StepShots(r) == {f \in artifacts[r] : \E k \in StepIdx : f = StepShot(k)}

\* run r never paused for authentication and no step of it failed
CleanRun(r) ==
    /\ EntriesWith(r, "Authentication detected") = {}
    /\ \A n \in DOMAIN runs[r].logs : runs[r].logs[n].level # "error"

CrossesBoundary(i) == At(i, "completed") /\ tasks'[i].pc = "authcheck"

PaddedShot(k, suffix) == <<"step_">> \o Pad3(k) \o suffix \o <<".png">>

ShotSuffixes == {<<>>, <<"_FAILED">>, <<"_auth">>}

\* the entries of run r's log written by the except clause for a step that raised
StepFailures(r) ==
    {n \in DOMAIN runs[r].logs :
        /\ runs[r].logs[n].level = "error"
        /\ runs[r].logs[n].message.error.type = "StepError"}

\* C14 (screenshot artifacts): after every executed step, succeeded or
\* failed, a screenshot named by the step index exists for it, suffixed
\* _FAILED when the step failed and _auth for the authentication pause, in
\* the form step_<3-digit-index>[_FAILED|_auth].png, and a fatal failure
\* (with a page session left to photograph) additionally produces error.png.
C14_ScreenshotArtifacts ==
    \A r \in DOMAIN runs :
        /\ \A f \in artifacts[r] :
              \/ f = ErrorShot
              \/ \E k \in StepIdx, suffix \in ShotSuffixes : f = PaddedShot(k, suffix)
        /\ \A n \in DOMAIN runs[r].logs :
              /\ runs[r].logs[n].message.text = "Completed step" =>
                    PaddedShot(runs[r].logs[n].step_index, <<>>) \in artifacts[r]
              /\ runs[r].logs[n].message.text = "Authentication detected" =>
                    PaddedShot(runs[r].logs[n].step_index, <<"_auth">>) \in artifacts[r]
              /\ (runs[r].logs[n].level = "error"
                    /\ runs[r].logs[n].message.context # "driver=none") =>
                    ErrorShot \in artifacts[r]
        /\ StepFailures(r) # {} =>
              \E k \in StepIdx : PaddedShot(k, <<"_FAILED">>) \in artifacts[r]

\* thread i holds an exception that a step of the loop raised
StepRaised(i) ==
    /\ tasks[i].err # NoErr
    /\ tasks[i].err.type # "WebDriverException"

\* C15 (failure semantics): when step i raises an unrecoverable exception,
\* the run record ends with status FAILED and current_step = i, one
\* error-level log entry holding the raw error and the page-context snapshot
\* is appended, one best-effort error screenshot is attempted (its failure
\* does not mask the error), no step with a greater index executes, and the
\* exception is raised again to the caller.
C15_FailureSemantics ==
    [][\A i \in Slots :
          /\ (At(i, "fail") /\ StepRaised(i) /\ tasks'[i].pc = "finally") =>
                /\ runs'[tasks[i].run].status = FAILED
                /\ runs'[tasks[i].run].current_step = tasks[i].idx
                /\ runs'[tasks[i].run].logs =
                      Append(runs[tasks[i].run].logs,
                             runs'[tasks[i].run].logs[Len(runs'[tasks[i].run].logs)])
                /\ LET e == runs'[tasks[i].run].logs[Len(runs'[tasks[i].run].logs)]
                   IN  /\ e.level = "error"
                       /\ e.message.error = tasks[i].err
                       /\ e.message.context = PageDebugContext(i)
                       /\ DriverOf(i) # "none" =>
                             /\ ErrorShot \in artifacts'[tasks[i].run]
                             /\ e.screenshot_path = ShotPath(tasks[i].run, ErrorShot)
                /\ tasks'[i].raised
          /\ (At(i, "task_end") /\ StepRaised(i)) =>
                /\ runs[tasks[i].run].status = FAILED
                /\ runs[tasks[i].run].current_step = tasks[i].idx
                /\ Cardinality({n \in DOMAIN runs[tasks[i].run].logs :
                                   runs[tasks[i].run].logs[n].level = "error"}) = 1
                /\ \A j \in StepIdx : j > tasks[i].idx => hist.execs[tasks[i].run][j] = 0
      ]_vars

(***************************************************************************)
(* Properties of candidate search and ranking (checked under SpecResolver) *)
(***************************************************************************)

\* the scores the strategies gave element e
ScoresOf(raw, e) == {raw[n].score : n \in {m \in DOMAIN raw : raw[m].element = e}}

\* C16 (de-duplication keeps the highest score): when several strategies
\* produce candidates for the same live element, the de-duplicated candidate
\* set contains that element exactly once, carrying the maximum score any
\* strategy gave it.
C16_DedupKeepsHighest ==
    (last.called /\ last.strategies) =>
        \E raw \in {RawCandidates(Pages[page], last.target)},
           cs \in {FindCandidates(Pages[page], last.target)} :
            /\ \A n \in DOMAIN raw : \E m \in DOMAIN cs : cs[m].element = raw[n].element
            /\ \A m, n \in DOMAIN cs : cs[m].element = cs[n].element => m = n
            /\ \A m \in DOMAIN cs :
                  \A x \in ScoresOf(raw, cs[m].element) : x <= cs[m].score

\* candidate k of cs has the maximum score and is the first that has it
FirstMax(cs, k) ==
    /\ \A m \in DOMAIN cs : cs[m].score <= cs[k].score
    /\ \A m \in 1..(k - 1) : cs[m].score < cs[k].score

\* the last call searched and returned the first candidate of maximum score
ReturnsFirstMax ==
    (last.called /\ last.strategies /\ last.outcome = "ok") =>
        \E cs \in {FindCandidates(Pages[page], last.target)} :
            \E k \in DOMAIN cs :
                /\ FirstMax(cs, k)
                /\ last.element = cs[k].element
                /\ last.selector = cs[k].selector
                /\ last.confidence = cs[k].score

\* C17 (determinism of ranking): for a fixed candidate set, resolve returns
\* the candidate with the maximum score; when several candidates tie for the
\* maximum, the one discovered first in strategy order is returned, so two
\* resolutions of the same target on the same page return the same
\* candidate.
C17_RankingDeterminism ==
    /\ ReturnsFirstMax
    /\ (last.called /\ last.priorEl # Missing) =>
          /\ last.outcome = "ok"
          /\ last.element = last.priorEl

\* a call returned the first of two different elements that tie for the maximum
C17_TieReached ==
    /\ last.called /\ last.strategies /\ last.outcome = "ok"
    /\ \E cs \in {FindCandidates(Pages[page], last.target)} :
          \E k, m \in DOMAIN cs :
              /\ k < m
              /\ FirstMax(cs, k)
              /\ cs[m].score = cs[k].score
              /\ last.element = cs[k].element

\* what the cache check of the last call found for the target: "none" (no
\* entry), "stale" (the entry's selector matched nothing and was evicted),
\* "invalid" (find_element rejected the selector) or "live"
CachedAtCall ==
    IF last.cached = NoSel THEN "none"
    ELSE IF FindElementCss(Pages[page], last.cached) = Missing THEN "stale"
    ELSE IF FindElementCss(Pages[page], last.cached) = Invalid THEN "invalid"
    ELSE "live"

\* C18 (ElementNotFound): resolve(T) fails with ElementNotFound carrying
\* the original target exactly when, after any stale cache entry was
\* evicted, all applicable strategies together yield no candidate; in that
\* case no cache entry for T exists afterwards and every other cache entry
\* is unchanged.
C18_ElementNotFound ==
    last.called =>
        /\ last.outcome = "ElementNotFound" <=>
              /\ CachedAtCall # "live"
              /\ FindCandidates(Pages[page], last.target) = <<>>
        /\ last.outcome = "ElementNotFound" =>
              /\ last.about = last.target
              /\ last.strategies
              /\ CreateCacheKey(last.target) \notin DOMAIN cache
              /\ last.othersKept

\* C19 (cache write on success): after every successful resolve(T), on the
\* cache-hit path and on the cache-miss path alike, the cache holds an entry
\* under T's fingerprint whose selector, kind and confidence equal those of
\* the returned resolution record and whose alternatives are at most the
\* five next-ranked candidates' selectors in rank order.
C19_CacheWriteOnSuccess ==
    (last.called /\ last.outcome = "ok") =>
        /\ CreateCacheKey(last.target) \in DOMAIN cache
        /\ \E e \in {cache[CreateCacheKey(last.target)]} :
              /\ e.selector = last.selector
              /\ e.type = last.type
              /\ e.confidence = last.confidence
              /\ e.alternatives = last.alternatives
              /\ Len(e.alternatives) <= 5
              /\ last.path = "miss" =>
                    \E ranked \in {SortByScore(FindCandidates(Pages[page], last.target))} :
                        /\ Len(e.alternatives) = (IF Len(ranked) > 5 THEN 5 ELSE Len(ranked) - 1)
                        /\ \A n \in DOMAIN e.alternatives :
                              e.alternatives[n] = ranked[n + 1].selector

\* a cache hit returned a record with five alternatives
C19_Witness ==
    /\ last.called /\ last.outcome = "ok" /\ last.path = "hit"
    /\ Len(last.alternatives) = 5
    /\ Len(FindCandidates(Pages[page], last.target)) > 6

\* a cache miss wrote an entry with five alternatives out of more candidates
C19_WitnessMiss ==
    /\ last.called /\ last.outcome = "ok" /\ last.path = "miss"
    /\ Len(cache[CreateCacheKey(last.target)].alternatives) = 5
    /\ Len(FindCandidates(Pages[page], last.target)) > 6

(***************************************************************************)
(* Properties of placeholder substitution (checked under SpecSubst)        *)
(***************************************************************************)

\* C20 (idempotent substitution): substituting the same parameter map into
\* the same step twice yields identical output steps, including when the
\* first substitution injects derived parameters into the map; repeated
\* substitution accumulates no side effect that changes the result.
C20_IdempotentSubstitution ==
    (subst.called /\ subst.prev # NoOutcome) => subst.out = subst.prev

(***************************************************************************)
(* Properties of step execution (checked under SpecStep and SpecWait)      *)
(***************************************************************************)

\* the <select> the last call's step resolved to, on the page as it was
SelectTarget == sess.call.before[FindElement(sess.call.before, sess.call.step)]

\* the last call was a SELECT step on a <select> that offers options (other
\* than an empty or "Select..." placeholder), none of which the requested
\* value matches: not by exact text, not by exact value, not as a substring
UnavailableSelect ==
    /\ sess.call.called
    /\ sess.call.step.type = "SELECT"
    /\ FindElement(sess.call.before, sess.call.step) # 0
    /\ SelectTarget.tag = "select"
    /\ VisibleSelectOptions(SelectTarget.options, FALSE, 12) # <<>>
    /\ SelectIndex(SelectTarget.options, sess.call.step.value) = 0

\* C21 (unavailable SELECT value): a SELECT step whose requested value
\* matches no option of its dropdown fails, selects nothing, and its error
\* message lists the available options: a non-empty list with no option
\* equal to the requested value.
C21_UnavailableSelectValue ==
    UnavailableSelect =>
        /\ sess.call.outcome = "raised"
        /\ sess.page = sess.call.before
        /\ sess.call.message.available # <<>>
        /\ \A k \in DOMAIN sess.call.message.available :
               sess.call.message.available[k] # sess.call.step.value

\* the extension entries the WAIT in progress (or just ended) appended
ExtensionEntries == SelectSeq(sess.wait.log, LAMBDA e : e.level = "info")

\* C22 (WAIT authentication extension): during one execution of a polling
\* WAIT step the timeout is extended at most once and the extension entry
\* is appended exactly once, however many polls saw a sign-in page; when
\* no poll saw one, the timeout stays at its initial value and no entry is
\* appended.
C22_WaitAuthExtension ==
    sess.wait.pc # "idle" =>
        /\ Len(ExtensionEntries) <= 1
        /\ sess.wait.auth_polls > 0 =>
               /\ Len(ExtensionEntries) = 1
               /\ sess.wait.auth_extended_once
               /\ sess.wait.timeout_seconds = ExtensionEntries[1].seconds
               /\ sess.wait.timeout_seconds \in {WaitTicks, sess.auth_wait}
               /\ sess.wait.timeout_seconds >= sess.auth_wait
        /\ sess.wait.auth_polls = 0 =>
               /\ ExtensionEntries = <<>>
               /\ ~sess.wait.auth_extended_once
               /\ sess.wait.timeout_seconds = WaitTicks

\* a WAIT ended after three polls saw a sign-in page, with one extension
C22_Witness ==
    /\ sess.wait.pc = "done"
    /\ sess.wait.auth_polls >= 3
    /\ Len(ExtensionEntries) = 1
    /\ sess.wait.timeout_seconds = AuthWaitTicks

(***************************************************************************)
(* Properties of the semantic workflow executor (checked under SpecReplay) *)
(***************************************************************************)

\* C23 (a non-authentication timeout is a step failure): when the wait
\* condition of a step does not become true within its timeout, the step
\* is not reported as successful and no later step executes.
C23_TimeoutIsFailure ==
    \A k \in DOMAIN replay.results :
        replay.results[k].timed_out =>
            /\ ~replay.results[k].success
            /\ k = Len(replay.results)

(***************************************************************************)
(* Properties of the continue entry point (checked under SpecContinue)     *)
(***************************************************************************)

\* the last request named an unknown run, or a run that was not waiting
\* for authentication
NotWaiting ==
    /\ http.called
    /\ \/ http.run \notin DOMAIN http.runs
       \/ http.runs[http.run].status # WAITING_FOR_AUTH

\* C24 (continue acts only on WAITING_FOR_AUTH): for an unknown run id, or
\* a run in any other status, the continue entry point answers with an
\* error, schedules no work and leaves the run record unchanged.
C24_ContinueOnlyWhenWaiting ==
    NotWaiting =>
        /\ http.code \in {400, 404}
        /\ http.code = 404 <=> http.run \notin DOMAIN http.runs
        /\ tasks = http.tasks
        /\ runs = http.runs

\* a continue request for a FAILED run that still has its parameters and
\* its runner was answered 400
C24_Witness ==
    /\ NotWaiting
    /\ http.run \in DOMAIN http.runs
    /\ http.runs[http.run].status = FAILED
    /\ http.run \in DOMAIN run_params
    /\ http.run \in DOMAIN active_runners
    /\ http.code = 400

\* a continue request for a run waiting for authentication was accepted
C24_WitnessAccepted ==
    /\ http.called
    /\ http.code = 200
    /\ http.runs[http.run].status = WAITING_FOR_AUTH
    /\ runs[http.run].status = QUEUED
    /\ tasks # http.tasks

(***************************************************************************)
(* Properties of cache persistence (checked under SpecDisk)                *)
(***************************************************************************)

\* C25 (last-writer-wins snapshot): once resolvers have saved to the file
\* one after the other, the file holds exactly the entries of the one that
\* saved last, and a resolver constructed on the file starts with exactly
\* the snapshot of the last saver (with an empty cache when no file was
\* written).
C25_LastWriterWins ==
    /\ disk.saves # <<>> =>
           /\ disk.file.exists
           /\ JsonLoad(disk.file.text) = disk.saves[Len(disk.saves)].cache
    /\ disk.built.by # "" => disk.built.cache = disk.built.expected

\* two resolvers saved in turn, the first holding an entry the second did
\* not have; the file lost it, and a third resolver was constructed on it
C25_Witness ==
    /\ Len(disk.saves) = 2
    /\ disk.saves[1].by # disk.saves[2].by
    /\ \E k \in DOMAIN disk.saves[1].cache : k \notin DOMAIN disk.saves[2].cache
    /\ disk.saves[2].cache # EmptyCache
    /\ \A k \in DOMAIN JsonLoad(disk.file.text) : k \in DOMAIN disk.saves[2].cache
    /\ disk.built.by \notin {"", disk.saves[1].by, disk.saves[2].by}
    /\ disk.built.cache = disk.saves[2].cache

(***************************************************************************)
(* Properties of two runs side by side (checked under SpecIso)             *)
(***************************************************************************)

\* tasks of distinct runs hold distinct runners, each constructed for its
\* run, and active_runners registers no runner under two run ids
OwnSession ==
    /\ \A i \in Slots :
          tasks[i].obj # 0 => runners[tasks[i].obj].run = tasks[i].run
    /\ \A i, j \in Slots :
          (tasks[i].obj # 0 /\ tasks[j].obj # 0 /\ tasks[i].run # tasks[j].run)
              => tasks[i].obj # tasks[j].obj
    /\ \A a, b \in DOMAIN active_runners :
          a # b => active_runners[a] # active_runners[b]
    /\ \A a \in DOMAIN active_runners : runners[active_runners[a]].run = a

\* the record with its log, the retained parameters, the registered
\* runner, the sessions and the files of run b are after the step what
\* they were before
RunUntouched(b) ==
    /\ (b \in DOMAIN runs') = (b \in DOMAIN runs)
    /\ b \in DOMAIN runs => runs'[b] = runs[b]
    /\ (b \in DOMAIN run_params') = (b \in DOMAIN run_params)
    /\ b \in DOMAIN run_params => run_params'[b] = run_params[b]
    /\ (b \in DOMAIN active_runners') = (b \in DOMAIN active_runners)
    /\ b \in DOMAIN active_runners => active_runners'[b] = active_runners[b]
    /\ \A o \in DOMAIN runners : runners[o].run = b => runners'[o] = runners[o]
    /\ artifacts'[b] = artifacts[b]

RunReturned(i) == At(i, "task_end")

\* the run of thread i is SUCCEEDED, FAILED or WAITING_FOR_AUTH
RunSettled(i) ==
    runs[tasks[i].run].status \in {SUCCEEDED, FAILED, WAITING_FOR_AUTH}

\* every invocation of run() returns
RunTerminates == \A i \in Slots : At(i, "run_begin") ~> RunReturned(i)

\* when run() has returned the run is not left RUNNING or QUEUED
RunEndsSettled == [](\A i \in Slots : RunReturned(i) => RunSettled(i))

\* C27 (bounded waits imply termination): every invocation of run()
\* terminates, under any behaviour of the page, with the run SUCCEEDED,
\* FAILED or WAITING_FOR_AUTH; the run is never left RUNNING or QUEUED when
\* run() returns.
C27_RunTerminatesSettled == RunEndsSettled /\ RunTerminates

(***************************************************************************)
(* Properties of the template object (checked under SpecTemplate)          *)
(***************************************************************************)

\* C28 (the template is an immutable input): after any run and after any
\* placeholder substitution the steps list of the template holds the same
\* step objects with the same contents as before, placeholders and learned
\* selectors included, and the substituted step is another object
C28_TemplateImmutable ==
    /\ tmpl.steps = [k \in 1..TemplateLen |-> k]
    /\ \A k \in 1..TemplateLen : tmpl.heap[tmpl.steps[k]] = tmpl.original[k]
    /\ tmpl.resolved # 0 => \A k \in 1..TemplateLen : tmpl.resolved # tmpl.steps[k]

\* a run has succeeded whose last substitution changed the value of a step
\* that carries a learned selector
C28_Witness ==
    /\ tmpl.status = SUCCEEDED
    /\ tmpl.resolved # 0
    /\ tmpl.heap[tmpl.resolved].value # tmpl.original[TemplateLen].value
    /\ tmpl.original[TemplateLen].resolved_css_selector # <<>>

(***************************************************************************)
(* Properties of the strategy scores (checked under SpecResolver)          *)
(***************************************************************************)

\* the candidates of strategy 6, the partial visible-text match
PartialTextCandidates(d, t) ==
    IF t.text_hint # <<>> THEN FindByText(d, t.text_hint, FALSE) ELSE <<>>

\* the candidates of strategies 1 to 5
OtherCandidates(d, t) ==
       (IF t.text_hint # <<>> THEN FindByText(d, t.text_hint, TRUE) ELSE <<>>)
    \o (IF t.label_hint # <<>> THEN FindByAriaLabel(d, t.label_hint) ELSE <<>>)
    \o (IF t.label_hint # <<>> THEN FindByLabelFor(d, t.label_hint) ELSE <<>>)
    \o (IF t.placeholder_hint # <<>> THEN FindByPlaceholder(d, t.placeholder_hint) ELSE <<>>)
    \o (IF t.role_hint # <<>> THEN FindByRole(d, t.role_hint, t.text_hint) ELSE <<>>)

\* the candidates matched on equality: exact text, exact aria-label, exact
\* placeholder
ExactCandidates(d, t) ==
       (IF t.text_hint # <<>> THEN FindByText(d, t.text_hint, TRUE) ELSE <<>>)
    \o (IF t.label_hint # <<>>
        THEN SelectSeq(FindByAriaLabel(d, t.label_hint),
                       LAMBDA c : c.score = W_aria_label)
        ELSE <<>>)
    \o (IF t.placeholder_hint # <<>>
        THEN SelectSeq(FindByPlaceholder(d, t.placeholder_hint),
                       LAMBDA c : c.score = W_placeholder)
        ELSE <<>>)

\* the candidates matched on containment: partial text, partial aria-label,
\* partial placeholder, and a role match boosted because the text is
\* contained
SubstringCandidates(d, t) ==
       PartialTextCandidates(d, t)
    \o (IF t.label_hint # <<>>
        THEN SelectSeq(FindByAriaLabel(d, t.label_hint),
                       LAMBDA c : c.score = Scale(W_aria_label, 8))
        ELSE <<>>)
    \o (IF t.placeholder_hint # <<>>
        THEN SelectSeq(FindByPlaceholder(d, t.placeholder_hint),
                       LAMBDA c : c.score = Scale(W_placeholder, 8))
        ELSE <<>>)
    \o (IF t.role_hint # <<>>
        THEN SelectSeq(FindByRole(d, t.role_hint, t.text_hint),
                       LAMBDA c : c.score = W_role_match + W_partial_text)
        ELSE <<>>)

\* no partial-text candidate scores higher than a candidate of another
\* strategy
PartialTextIsLowest(d, t) ==
    \E pt \in {PartialTextCandidates(d, t)}, ot \in {OtherCandidates(d, t)} :
        \A m \in DOMAIN pt, n \in DOMAIN ot : pt[m].score <= ot[n].score

\* every exact-match candidate scores higher than every substring-match one
ExactOutranksSubstring(d, t) ==
    \E ex \in {ExactCandidates(d, t)}, sb \in {SubstringCandidates(d, t)} :
        \A m \in DOMAIN ex, n \in DOMAIN sb : ex[m].score > sb[n].score

\* C29 (scores respect the reliability order): among the candidates the
\* strategies produce for a target, a partial visible-text candidate never
\* scores higher than a candidate of any other strategy, and every
\* exact-match candidate scores higher than every substring-match candidate.
C29_ScoreOrder ==
    (last.called /\ last.strategies) =>
        /\ PartialTextIsLowest(Pages[page], last.target)
        /\ ExactOutranksSubstring(Pages[page], last.target)

(***************************************************************************)
(* Properties of CLICK steps (checked under SpecClick)                     *)
(***************************************************************************)

\* the place of a look-up in the order learned selector, selector hint,
\* label or association look-up, text match
StrategyRank(strategy) ==
    CASE strategy = "learned_selector" -> 1
      [] strategy = "selector_hint"    -> 2
      [] strategy = "choice_input"     -> 3
      [] strategy = "associated_input" -> 3
      [] strategy = "xpath_text"       -> 4
      [] strategy = "aria_label"       -> 4

\* C30 (CLICK resolution order): for a CLICK step with a learned selector
\* that selector is the first look-up attempted; each later look-up is
\* attempted only after every earlier one failed to yield an element, in
\* the order learned selector, selector hint, label or association look-up,
\* text match; and a successful step clicked the element of exactly one
\* look-up, once.
C30_ClickOrder ==
    clk.called =>
        /\ clk.step.resolved_css_selector # "" =>
               clk.attempts[1].strategy = "learned_selector"
        /\ \A j, k \in DOMAIN clk.attempts :
               j < k => /\ ~clk.attempts[j].found
                        /\ StrategyRank(clk.attempts[j].strategy)
                               <= StrategyRank(clk.attempts[k].strategy)
        /\ clk.outcome = "ok" => Len(clk.clicks) = 1

\* C31: a TYPE step is reported successful only if the value read back from
\* the control after entry is the value entered; on a mismatch the step fails
TypedValueAgrees == typ.el.value = typ.step.value

C31_TypeVerified == typ.called /\ typ.outcome = "ok" => TypedValueAgrees

\* C32: a CLICK step that lands on a radio button or check box succeeds only
\* with the selection confirmed: when the call returns normally, a choice
\* input it clicked reports itself selected
ClickedChoices ==
    {clk.clicks[k].element : k \in {j \in DOMAIN clk.clicks :
                                       IsChoiceInput(clk.page[clk.clicks[j].element])}}

C32_ChoiceConfirmed ==
    clk.called /\ clk.outcome = "ok" /\ ClickedChoices # {}
        => \E e \in ClickedChoices : clk.page[e].selected

\* C33: the submit CLICK succeeds only if, after the click, the page shows
\* no validation failure and a state transition was observed within the
\* wait: the address changed, confirmation text appeared, or the submit
\* control went away
HasConfirmation(p) == \E marker \in ConfirmationMarkers : Contains(Lower(p.body), marker)

TransitionObserved ==
    \/ sbm.seen.url # sbm.before.url
    \/ HasConfirmation(sbm.seen) /\ ~HasConfirmation(sbm.before)
    \/ sbm.before.button.visible /\ ~sbm.seen.button.visible

C33_SubmitConfirmed ==
    sbm.called /\ sbm.outcome = "ok" => sbm.seen.invalid = {} /\ TransitionObserved

\* C34 (as stated): execute yields one result per executed step in template
\* order and stops after the first failed step, and the selector cache is
\* saved when the executor exits, whether or not a step failed
OneResultPerStep ==
    /\ Len(exe.results) = exe.i
    /\ \A k \in DOMAIN exe.results : exe.results[k].step_index = k - 1

StopsAtFirstFailure ==
    /\ \A k \in DOMAIN exe.results : k < Len(exe.results) => exe.results[k].success
    /\ (\E k \in DOMAIN exe.results : ~exe.results[k].success) => exe.pc \notin {"loop", "completed"}

CacheSaved == exe.file.exists /\ JsonLoad(exe.file.text) = exe.cache

C34_OneResultStopSave ==
    /\ OneResultPerStep
    /\ StopsAtFirstFailure
    /\ exe.pc = "exited" => CacheSaved

\* C34 (amended): the same, the cache being saved on exit when the executor
\* was given a cache path
C34_Amended ==
    /\ OneResultPerStep
    /\ StopsAtFirstFailure
    /\ exe.pc = "exited" /\ exe.cache_path => CacheSaved

\* an executor with a cache path left after a failed second step, its file
\* holding the entry the first step cached
C34_Witness ==
    /\ exe.pc = "exited"
    /\ exe.cache_path
    /\ Len(exe.results) = 2
    /\ ~exe.results[2].success
    /\ "t1" \in DOMAIN exe.cache
    /\ CacheSaved

(***************************************************************************)
(* Properties of the page session at the end of run() (SpecAuthFail)       *)
(***************************************************************************)

\* when run() has returned or raised with the run SUCCEEDED or FAILED, the
\* runner holds no session
ReleasedWhenTerminal ==
    \A i \in Slots :
        RunReturned(i) /\ runs[tasks[i].run].status \in TERMINAL_STATUSES
            => DriverOf(i) = "none"

\* a session is kept after run() only with the run WAITING_FOR_AUTH
RetainedOnlyWaiting ==
    \A i \in Slots :
        RunReturned(i) /\ DriverOf(i) # "none"
            => runs[tasks[i].run].status = WAITING_FOR_AUTH

\* C35 (session release): whenever run() returns or raises with the run in a
\* terminal status the page session has been closed and the runner holds
\* none; a session is retained after run() only while the run is
\* WAITING_FOR_AUTH, also when the failure happens during the wait for
\* authentication
C35_SessionRelease == ReleasedWhenTerminal /\ RetainedOnlyWaiting

(***************************************************************************)
(* Properties of the cached selectors (checked under SpecResolver)         *)
(***************************************************************************)

\* the call was served from the cache, after a successful resolve of the
\* same target on the same, unchanged page
HitAfterResolve ==
    last.called /\ last.path = "hit" /\ last.outcome = "ok" /\ last.priorEl # Missing

\* the selector a cache miss wrote, looked up as first match, finds the
\* element it was synthesized for
SelectorIdentifiesElement ==
    last.called /\ last.path = "miss" /\ last.outcome = "ok"
        => FindElementCss(Pages[page], last.selector) = last.element

\* C36 (a cache hit returns the same element): on a cache hit against an
\* unchanged page the element returned is the element the cache-miss
\* resolution of that target returned, for every kind of selector the
\* synthesizer writes; every cached selector identifies its element
C36_HitSameElement ==
    /\ HitAfterResolve => last.element = last.priorEl
    /\ SelectorIdentifiesElement

\* the cache holds no selector that find_element cannot evaluate
CacheEvaluable ==
    \A k \in DOMAIN cache : FindElementCss(Pages[page], cache[k].selector) # Invalid

\* C37 (cached selectors are usable): every selector written into the cache
\* can be evaluated by the cache-hit path: a resolve that finds an entry for
\* its target either re-locates an element with it or evicts it and falls
\* through to the strategies; the cache check itself never fails, and no
\* unusable entry is left in the cache
C37_CachedSelectorUsable ==
    /\ last.called /\ last.cached # NoSel
           => (last.path = "hit" /\ last.outcome = "ok") \/ last.evicted
    /\ CacheEvaluable

\* a is an initial part of b
LogPrefix(a, b) == Len(a) <= Len(b) /\ SubSeq(b, 1, Len(a)) = a

\* the update_run that returned last was given an error message and no other
\* caller wrote the store while it ran
ErrorUpdateReturned ==
    sto.done.kind = "update_run" /\ sto.done.error # NoError /\ sto.done.alone

\* C38: the run log is append-only: every statement of add_log, update_run and
\* _set_status that stores a run leaves the previous log as a prefix of the
\* new log, whatever the order of the callers, and an update_run called with
\* an error message returns with the log one entry longer than it found it,
\* the last entry being the error entry
C38_LogAppendOnly ==
    [][/\ LogPrefix(sto.runs[StoreRun].logs, sto.runs[StoreRun].logs')
       /\ ErrorUpdateReturned'
              => sto.done.after' = Append(sto.done.before',
                                          StoreLog("error", sto.done.error'))]_vars
====
